---- MODULE Spec2Model ----
(***************************************************************************)
(* A model of the provider / model resolution layer of claude-mode:        *)
(*   src/src/providers.ts  registry, alias and model resolution, model     *)
(*                         discovery with its two caches, health checks    *)
(*   src/src/config.ts     configuration and the on-disk model cache       *)
(*   src/unnamed/part_004  errors.ts, the error classifier                 *)
(*                                                                         *)
(* JavaScript strings are modelled as sequences of one-character strings,  *)
(* so that toLowerCase, startsWith and includes are computed, not assumed. *)
(*                                                                         *)
(* The specifications of the module share its variables:                   *)
(*   Spec         getModels / getOllamaModels with the in-memory cache,    *)
(*                the disk cache, the deadline timer and the clock         *)
(*   SpecHealth   checkProviderHealth and checkAllProvidersHealth          *)
(*   SpecResolve  resolveModel / resolveProvider as pure functions         *)
(*   SpecClassify classifyError as a pure function                         *)
(*   SpecConfig   loadConfig / saveConfig / initConfig / saveConfiguration *)
(*                and getProviders with their process-wide caches          *)
(*   SpecTimers   a discovery call and a health check with their timers    *)
(*   SpecDisk     saveModelCache / getCachedModels on bounded inputs        *)
(*   SpecLaunch   quickMode / interactive mode, runClaude and its child    *)
(***************************************************************************)
EXTENDS Integers, Sequences, FiniteSets, TLC

VARIABLES
    now,         \* Date.now(), in milliseconds
    configFile,  \* ~/.claude-mode/claude-mode.json
    cacheDir,    \* ~/.claude-mode/cache: "missing", "present" or "blocked"
    diskFile,    \* ~/.claude-mode/cache/models.json
    memCache,    \* _ollamaModelCache
    call,        \* the getModels calls, by call id
    health,      \* the checkProviderHealth calls, by slot
    batch,       \* the checkAllProvidersHealth call
    rm,          \* one resolveModel call: its inputs and its result
    ce,          \* one classifyError call: the thrown value and the result
    defaultsObj,     \* the DEFAULT_CONFIG object (loadConfig hands it out by reference)
    cachedConfig,    \* _cachedConfig
    providersCache,  \* _providersCache
    ret,             \* the latest configuration / registry operation and what it returned
    launch           \* one launch of claude: quickMode, runClaude and the child's events

vars == <<now, configFile, cacheDir, diskFile, memCache, call, health, batch, rm, ce,
          defaultsObj, cachedConfig, providersCache, ret, launch>>

\* the variables of the configuration and the registry caches
configVars == <<defaultsObj, cachedConfig, providersCache, ret>>

\* the variables the discovery, health and resolution steps never touch
restVars == <<ce, configVars, launch>>

\* the variables of discovery, health checks and resolution
networkVars == <<now, cacheDir, diskFile, memCache, call, health, batch, rm>>

-----------------------------------------------------------------------------
(* Bounds of the model                                                     *)

\* number of getModels calls of one run
MaxCalls == 2
\* longest data array a discovery response carries
MaxModels == 1
\* the clock runs to MaxLaps cache lifetimes
MaxLaps == 1
\* longest discovered list resolveModel searches
MaxResolveModels == 2
\* most pieces a thrown value's message is made of
MaxPieces == 3
\* largest exit code of the spawned claude
MaxExitCode == 2
\* a cacheTTL a config file sets
SmallTTL == 3
\* a modelDiscoveryTimeout / healthCheckTimeout a config file sets
SmallTimeout == 2

-----------------------------------------------------------------------------
(* Strings                                                                 *)

\* String.prototype.toLowerCase, on the characters the program meets
LowerOf ==
    [A |-> "a", B |-> "b", C |-> "c", D |-> "d", E |-> "e", F |-> "f", G |-> "g",
     H |-> "h", I |-> "i", J |-> "j", K |-> "k", L |-> "l", M |-> "m", N |-> "n",
     O |-> "o", P |-> "p", Q |-> "q", R |-> "r", S |-> "s", T |-> "t", U |-> "u",
     V |-> "v", W |-> "w", X |-> "x", Y |-> "y", Z |-> "z"]

toLowerCase(s) ==
    [i \in 1..Len(s) |-> IF s[i] \in DOMAIN LowerOf THEN LowerOf[s[i]] ELSE s[i]]

\* String.prototype.startsWith
startsWith(s, prefix) ==
    /\ Len(s) >= Len(prefix)
    /\ SubSeq(s, 1, Len(prefix)) = prefix

\* includes, were only the start of the string searched
includesAtStart(s, sub) == startsWith(s, sub)

\* String.prototype.includes
includes(s, sub) ==
    \E i \in 0..(Len(s) - Len(sub)) : SubSeq(s, i + 1, i + Len(sub)) = sub

-----------------------------------------------------------------------------
(* Configuration (config.ts)                                               *)

DefaultDiscoveryTimeout == 5000
DefaultHealthTimeout == 2000
DefaultCacheTTL == 30000

\* DEFAULT_CONFIG
DEFAULT_CONFIG ==
    [defaultProvider |-> <<>>,
     defaultModel |-> <<>>,
     modelDiscoveryTimeout |-> DefaultDiscoveryTimeout,
     healthCheckTimeout |-> DefaultHealthTimeout,
     cacheTTL |-> DefaultCacheTTL,
     customProviders |-> <<>>,
     skipHealthCheck |-> FALSE,
     offlineMode |-> FALSE,
     headlessAllowedTools |-> <<"R", "e", "a", "d", ",", "E", "d", "i", "t", ",", "W", "r", "i", "t", "e", ",", "B", "a", "s", "h", ",", "G", "l", "o", "b", ",", "G", "r", "e", "p">>]

\* the config files of the model: none, one that sets the three durations,
\* one that sets them to 0, one that is not JSON
NoConfigFile == [exists |-> FALSE, valid |-> FALSE, parsed |-> <<>>]

ConfigFiles ==
    { NoConfigFile,
      [exists |-> TRUE, valid |-> TRUE,
       parsed |-> [cacheTTL |-> SmallTTL, modelDiscoveryTimeout |-> SmallTimeout,
                   healthCheckTimeout |-> SmallTimeout]],
      [exists |-> TRUE, valid |-> TRUE,
       parsed |-> [cacheTTL |-> 0, modelDiscoveryTimeout |-> 0,
                   healthCheckTimeout |-> 0]],
      [exists |-> TRUE, valid |-> FALSE, parsed |-> <<>>] }

\* the object spread { ...defaults, ...parsed }
Spread(defaults, parsed) ==
    [k \in DOMAIN defaults \cup DOMAIN parsed |->
        IF k \in DOMAIN parsed THEN parsed[k] ELSE defaults[k]]

\* loadConfig: { ...DEFAULT_CONFIG, ...parsed }, DEFAULT_CONFIG when there is no
\* file or it does not parse
loadConfig(file) ==
    IF file.exists /\ file.valid
    THEN Spread(DEFAULT_CONFIG, file.parsed)
    ELSE DEFAULT_CONFIG

\* getConfig(key): config[key] ?? DEFAULT_CONFIG[key]
getConfig(file, key) == loadConfig(file)[key]

\* the JavaScript a || b on numbers: 0 is falsy
OrElse(a, b) == IF a = 0 THEN b ELSE a

-----------------------------------------------------------------------------
(* Provider registry and aliases (providers.ts)                            *)

OPENROUTER == <<"o", "p", "e", "n", "r", "o", "u", "t", "e", "r">>
OLLAMA_CLOUD == <<"o", "l", "l", "a", "m", "a", "-", "c", "l", "o", "u", "d">>
OLLAMA_LOCAL == <<"o", "l", "l", "a", "m", "a", "-", "l", "o", "c", "a", "l">>
OLLAMA_CUSTOM == <<"o", "l", "l", "a", "m", "a", "-", "c", "u", "s", "t", "o", "m">>

\* builtInProviders
builtInProviders ==
    (OPENROUTER :> [name |-> <<"O", "p", "e", "n", "R", "o", "u", "t", "e", "r">>, key |-> OPENROUTER, isBuiltIn |-> TRUE]) @@
    (OLLAMA_CLOUD :> [name |-> <<"O", "l", "l", "a", "m", "a", " ", "C", "l", "o", "u", "d">>, key |-> OLLAMA_CLOUD, isBuiltIn |-> TRUE]) @@
    (OLLAMA_LOCAL :> [name |-> <<"O", "l", "l", "a", "m", "a", " ", "L", "o", "c", "a", "l">>, key |-> OLLAMA_LOCAL, isBuiltIn |-> TRUE]) @@
    (OLLAMA_CUSTOM :> [name |-> <<"O", "l", "l", "a", "m", "a", " ", "C", "u", "s", "t", "o", "m">>, key |-> OLLAMA_CUSTOM, isBuiltIn |-> TRUE])

\* the loop of getProviders, were a key already registered kept
RECURSIVE addCustomProvidersFirstWins(_, _)
addCustomProvidersFirstWins(providers, customs) ==
    IF customs = <<>> THEN providers
    ELSE LET custom == Head(customs)
             next == IF custom.key # <<>> /\ custom.name # <<>> /\ custom.baseUrl # <<>>
                     THEN providers @@ (custom.key :> [name |-> custom.name, key |-> custom.key,
                                                       isBuiltIn |-> FALSE])
                     ELSE providers
         IN addCustomProvidersFirstWins(next, Tail(customs))

\* getProviders: the built-ins, then every complete custom definition in order
RECURSIVE addCustomProviders(_, _)
addCustomProviders(providers, customs) ==
    IF customs = <<>> THEN providers
    ELSE LET custom == Head(customs)
             next == IF custom.key # <<>> /\ custom.name # <<>> /\ custom.baseUrl # <<>>
                     THEN (custom.key :> [name |-> custom.name, key |-> custom.key,
                                          isBuiltIn |-> FALSE]) @@ providers
                     ELSE providers
         IN addCustomProviders(next, Tail(customs))

getProviders(file) == addCustomProviders(builtInProviders, loadConfig(file).customProviders)

\* the properties an object literal inherits from Object.prototype: a lookup
\* obj[key] of a key that is not an own property finds them. Their values are
\* functions or objects, never strings, and all of them are truthy.
ObjectPrototype ==
    (<<"c", "o", "n", "s", "t", "r", "u", "c", "t", "o", "r">> :> <<"[Function: Object]">>) @@
    (<<"t", "o", "S", "t", "r", "i", "n", "g">> :> <<"[Function: toString]">>) @@
    (<<"v", "a", "l", "u", "e", "O", "f">> :> <<"[Function: valueOf]">>) @@
    (<<"h", "a", "s", "O", "w", "n", "P", "r", "o", "p", "e", "r", "t", "y">> :> <<"[Function: hasOwnProperty]">>) @@
    (<<"_", "_", "p", "r", "o", "t", "o", "_", "_">> :> <<"[Object: null prototype] {}">>)

\* typeof v === 'string', for the values a lookup gives
IsString(v) == v \notin {ObjectPrototype[k] : k \in DOMAIN ObjectPrototype}

\* providerAliases
providerAliases ==
    (<<"o", "r">> :> OPENROUTER) @@
    (<<"o", "p", "e", "n">> :> OPENROUTER) @@
    (<<"o", "c">> :> OLLAMA_CLOUD) @@
    (<<"c", "l", "o", "u", "d">> :> OLLAMA_CLOUD) @@
    (<<"o", "l">> :> OLLAMA_LOCAL) @@
    (<<"l", "o", "c", "a", "l">> :> OLLAMA_LOCAL) @@
    (<<"c", "u", "s", "t", "o", "m">> :> OLLAMA_CUSTOM) @@
    (<<"r", "e", "m", "o", "t", "e">> :> OLLAMA_CUSTOM)

\* resolveProvider: providerAliases[shortcut] || shortcut; the lookup finds an
\* own property first, then an inherited one
resolveProvider(shortcut) ==
    IF shortcut \in DOMAIN providerAliases /\ providerAliases[shortcut] # <<>>
    THEN providerAliases[shortcut]
    ELSE IF shortcut \in DOMAIN ObjectPrototype
    THEN ObjectPrototype[shortcut]
    ELSE shortcut

\* isOllamaProvider raises a TypeError on a value that is not a string and not
\* one of the three keys: providerKey.startsWith is not a function
isOllamaProviderThrows(providerKey) == ~IsString(providerKey)

\* isOllamaProvider
isOllamaProvider(providerKey) ==
    \/ providerKey = OLLAMA_LOCAL
    \/ providerKey = OLLAMA_CUSTOM
    \/ providerKey = OLLAMA_CLOUD
    \/ startsWith(providerKey, <<"o", "l", "l", "a", "m", "a", "-">>)

-----------------------------------------------------------------------------
(* Static models and model resolution (providers.ts)                       *)

\* models.openrouter
openrouterModels == <<
    \* { id: 'openai/gpt-5.2', name: 'GPT-5.2', shortcut: 'gpt52' }
    [id |-> <<"o", "p", "e", "n", "a", "i", "/", "g", "p", "t", "-", "5", ".", "2">>,
     name |-> <<"G", "P", "T", "-", "5", ".", "2">>,
     shortcut |-> <<"g", "p", "t", "5", "2">>],
    \* { id: 'openai/gpt-5.2-pro', name: 'GPT-5.2 Pro', shortcut: 'gpt52-pro' }
    [id |-> <<"o", "p", "e", "n", "a", "i", "/", "g", "p", "t", "-", "5", ".", "2", "-", "p", "r", "o">>,
     name |-> <<"G", "P", "T", "-", "5", ".", "2", " ", "P", "r", "o">>,
     shortcut |-> <<"g", "p", "t", "5", "2", "-", "p", "r", "o">>],
    \* { id: 'openai/gpt-5.2-codex', name: 'GPT-5.2 Codex', shortcut: 'gpt52-codex' }
    [id |-> <<"o", "p", "e", "n", "a", "i", "/", "g", "p", "t", "-", "5", ".", "2", "-", "c", "o", "d", "e", "x">>,
     name |-> <<"G", "P", "T", "-", "5", ".", "2", " ", "C", "o", "d", "e", "x">>,
     shortcut |-> <<"g", "p", "t", "5", "2", "-", "c", "o", "d", "e", "x">>],
    \* { id: 'anthropic/claude-opus-4.5', name: 'Claude Opus 4.5', shortcut: 'opus' }
    [id |-> <<"a", "n", "t", "h", "r", "o", "p", "i", "c", "/", "c", "l", "a", "u", "d", "e", "-", "o", "p", "u", "s", "-", "4", ".", "5">>,
     name |-> <<"C", "l", "a", "u", "d", "e", " ", "O", "p", "u", "s", " ", "4", ".", "5">>,
     shortcut |-> <<"o", "p", "u", "s">>],
    \* { id: 'x-ai/grok-4.1-fast', name: 'Grok 4.1 Fast', shortcut: 'grok' }
    [id |-> <<"x", "-", "a", "i", "/", "g", "r", "o", "k", "-", "4", ".", "1", "-", "f", "a", "s", "t">>,
     name |-> <<"G", "r", "o", "k", " ", "4", ".", "1", " ", "F", "a", "s", "t">>,
     shortcut |-> <<"g", "r", "o", "k">>],
    \* { id: 'deepseek/deepseek-v3.2', name: 'DeepSeek V3.2', shortcut: 'deepseek' }
    [id |-> <<"d", "e", "e", "p", "s", "e", "e", "k", "/", "d", "e", "e", "p", "s", "e", "e", "k", "-", "v", "3", ".", "2">>,
     name |-> <<"D", "e", "e", "p", "S", "e", "e", "k", " ", "V", "3", ".", "2">>,
     shortcut |-> <<"d", "e", "e", "p", "s", "e", "e", "k">>],
    \* { id: 'z-ai/glm-4.7-flash', name: 'Z.AI GLM 4.7 Flash', shortcut: 'zai-glm47-flash' }
    [id |-> <<"z", "-", "a", "i", "/", "g", "l", "m", "-", "4", ".", "7", "-", "f", "l", "a", "s", "h">>,
     name |-> <<"Z", ".", "A", "I", " ", "G", "L", "M", " ", "4", ".", "7", " ", "F", "l", "a", "s", "h">>,
     shortcut |-> <<"z", "a", "i", "-", "g", "l", "m", "4", "7", "-", "f", "l", "a", "s", "h">>],
    \* { id: 'anthropic/claude-sonnet-4.5', name: 'Claude Sonnet 4.5', shortcut: 'sonnet' }
    [id |-> <<"a", "n", "t", "h", "r", "o", "p", "i", "c", "/", "c", "l", "a", "u", "d", "e", "-", "s", "o", "n", "n", "e", "t", "-", "4", ".", "5">>,
     name |-> <<"C", "l", "a", "u", "d", "e", " ", "S", "o", "n", "n", "e", "t", " ", "4", ".", "5">>,
     shortcut |-> <<"s", "o", "n", "n", "e", "t">>],
    \* { id: 'anthropic/claude-haiku-4.5', name: 'Claude Haiku 4.5', shortcut: 'haiku' }
    [id |-> <<"a", "n", "t", "h", "r", "o", "p", "i", "c", "/", "c", "l", "a", "u", "d", "e", "-", "h", "a", "i", "k", "u", "-", "4", ".", "5">>,
     name |-> <<"C", "l", "a", "u", "d", "e", " ", "H", "a", "i", "k", "u", " ", "4", ".", "5">>,
     shortcut |-> <<"h", "a", "i", "k", "u">>],
    \* { id: '@preset/gpt-oss-120b-cerebras', name: 'GPT-OSS 120B (Cerebras)', shortcut: 'gpt120' }
    [id |-> <<"@", "p", "r", "e", "s", "e", "t", "/", "g", "p", "t", "-", "o", "s", "s", "-", "1", "2", "0", "b", "-", "c", "e", "r", "e", "b", "r", "a", "s">>,
     name |-> <<"G", "P", "T", "-", "O", "S", "S", " ", "1", "2", "0", "B", " ", "(", "C", "e", "r", "e", "b", "r", "a", "s", ")">>,
     shortcut |-> <<"g", "p", "t", "1", "2", "0">>],
    \* { id: '@preset/cerebras-glm-4-7-cerebras', name: 'GLM 4.7 (Cerebras)', shortcut: 'glm47' }
    [id |-> <<"@", "p", "r", "e", "s", "e", "t", "/", "c", "e", "r", "e", "b", "r", "a", "s", "-", "g", "l", "m", "-", "4", "-", "7", "-", "c", "e", "r", "e", "b", "r", "a", "s">>,
     name |-> <<"G", "L", "M", " ", "4", ".", "7", " ", "(", "C", "e", "r", "e", "b", "r", "a", "s", ")">>,
     shortcut |-> <<"g", "l", "m", "4", "7">>],
    \* { id: 'z-ai/glm-4.7', name: 'Z.AI GLM 4.7', shortcut: 'zai-glm47' }
    [id |-> <<"z", "-", "a", "i", "/", "g", "l", "m", "-", "4", ".", "7">>,
     name |-> <<"Z", ".", "A", "I", " ", "G", "L", "M", " ", "4", ".", "7">>,
     shortcut |-> <<"z", "a", "i", "-", "g", "l", "m", "4", "7">>],
    \* { id: 'google/gemini-3-pro-preview', name: 'Gemini 3 Pro Preview', shortcut: 'gemini-pro' }
    [id |-> <<"g", "o", "o", "g", "l", "e", "/", "g", "e", "m", "i", "n", "i", "-", "3", "-", "p", "r", "o", "-", "p", "r", "e", "v", "i", "e", "w">>,
     name |-> <<"G", "e", "m", "i", "n", "i", " ", "3", " ", "P", "r", "o", " ", "P", "r", "e", "v", "i", "e", "w">>,
     shortcut |-> <<"g", "e", "m", "i", "n", "i", "-", "p", "r", "o">>],
    \* { id: 'google/gemini-3-flash-preview', name: 'Gemini 3 Flash Preview', shortcut: 'gemini-flash' }
    [id |-> <<"g", "o", "o", "g", "l", "e", "/", "g", "e", "m", "i", "n", "i", "-", "3", "-", "f", "l", "a", "s", "h", "-", "p", "r", "e", "v", "i", "e", "w">>,
     name |-> <<"G", "e", "m", "i", "n", "i", " ", "3", " ", "F", "l", "a", "s", "h", " ", "P", "r", "e", "v", "i", "e", "w">>,
     shortcut |-> <<"g", "e", "m", "i", "n", "i", "-", "f", "l", "a", "s", "h">>]
>>

\* models: the static lists, by provider key
models == (OPENROUTER :> openrouterModels)

\* a discovered model: { id: model.id, name: model.id, shortcut: model.id }
Discovered(id) == [id |-> id, name |-> id, shortcut |-> id]

\* the predicate of both find calls of resolveModel
Matches(m, shortcut) ==
    \/ m.shortcut = shortcut
    \/ m.id = shortcut
    \/ toLowerCase(m.name) = toLowerCase(shortcut)

\* Array.prototype.find: the first element that satisfies the predicate,
\* as a sequence of length 0 (undefined) or 1
Find(list, shortcut) ==
    LET hits == {i \in 1..Len(list) : Matches(list[i], shortcut)}
    IN IF hits = {} THEN <<>>
       ELSE <<list[CHOOSE i \in hits : \A j \in hits : i <= j]>>

\* model?.id || shortcut
IdOr(found, shortcut) ==
    IF found # <<>> /\ found[1].id # <<>> THEN found[1].id ELSE shortcut

\* resolveModel without the alias step (the key is looked up as given)
resolveModelNoAlias(providerKey, shortcut, ollamaModels) ==
    IF isOllamaProvider(providerKey) THEN IdOr(Find(ollamaModels, shortcut), shortcut)
    ELSE IF providerKey \notin DOMAIN models THEN shortcut
    ELSE IdOr(Find(models[providerKey], shortcut), shortcut)

\* resolveModel rejects when isOllamaProvider raises on the resolved key
resolveModelThrows(providerKey) == isOllamaProviderThrows(resolveProvider(providerKey))

\* resolveModel; ollamaModels is what the awaited getOllamaModels returned
resolveModel(providerKey, shortcut, ollamaModels) ==
    LET resolvedKey == resolveProvider(providerKey)
    IN IF isOllamaProvider(resolvedKey)
       THEN IdOr(Find(ollamaModels, shortcut), shortcut)
       ELSE IF resolvedKey \notin DOMAIN models THEN shortcut
       ELSE IdOr(Find(models[resolvedKey], shortcut), shortcut)

-----------------------------------------------------------------------------
(* The error classifier (errors.ts)                                        *)

\* a thrown value: an Error object (isError) with its name and message, or any
\* other value, whose message field holds String(value)
Thrown(isError, name, message) == [isError |-> isError, name |-> name, message |-> message]

\* new Error(message)
NewError(message) == Thrown(TRUE, "Error", message)

\* a ClaudeModeError; hint and cause are absent (<<>>) or present (<<value>>)
Classified(code, message, hint, cause) ==
    [code |-> code, message |-> message, hint |-> hint, cause |-> cause]

\* classifyError
classifyError(error) ==
    LET msg == toLowerCase(error.message)
    IN IF error.isError /\ (includes(msg, <<"e", "c", "o", "n", "n", "r", "e", "f", "u", "s", "e", "d">>) \/ includes(msg, <<"c", "o", "n", "n", "e", "c", "t", "i", "o", "n", " ", "r", "e", "f", "u", "s", "e", "d">>))
       THEN Classified("CONNECTION_REFUSED", <<"C", "o", "n", "n", "e", "c", "t", "i", "o", "n", " ", "r", "e", "f", "u", "s", "e", "d">>,
                       <<"Check that the server is running and the URL is correct.">>, <<error>>)
       ELSE IF error.isError /\ (\/ includes(msg, <<"e", "t", "i", "m", "e", "d", "o", "u", "t">>)
                                 \/ includes(msg, <<"t", "i", "m", "e", "o", "u", "t">>)
                                 \/ includes(msg, <<"t", "i", "m", "e", "d", " ", "o", "u", "t">>))
       THEN Classified("CONNECTION_TIMEOUT", <<"C", "o", "n", "n", "e", "c", "t", "i", "o", "n", " ", "t", "i", "m", "e", "d", " ", "o", "u", "t">>,
                       <<"The server took too long to respond. Check network connectivity or increase timeout in config.">>,
                       <<error>>)
       ELSE IF error.isError /\ (includes(msg, <<"e", "n", "o", "t", "f", "o", "u", "n", "d">>) \/ includes(msg, <<"g", "e", "t", "a", "d", "d", "r", "i", "n", "f", "o">>))
       THEN Classified("DNS_RESOLUTION_FAILED", <<"D", "N", "S", " ", "r", "e", "s", "o", "l", "u", "t", "i", "o", "n", " ", "f", "a", "i", "l", "e", "d">>,
                       <<"Could not resolve hostname. Check the URL and your internet connection.">>,
                       <<error>>)
       ELSE IF error.isError /\ (includes(msg, <<"4", "0", "1">>) \/ includes(msg, <<"u", "n", "a", "u", "t", "h", "o", "r", "i", "z", "e", "d">>))
       THEN Classified("AUTH_INVALID", <<"A", "u", "t", "h", "e", "n", "t", "i", "c", "a", "t", "i", "o", "n", " ", "f", "a", "i", "l", "e", "d">>,
                       <<"Check that your API key is valid and correctly set in .env file.">>,
                       <<error>>)
       ELSE IF error.isError /\ (includes(msg, <<"4", "0", "3">>) \/ includes(msg, <<"f", "o", "r", "b", "i", "d", "d", "e", "n">>))
       THEN Classified("AUTH_INVALID", <<"A", "c", "c", "e", "s", "s", " ", "f", "o", "r", "b", "i", "d", "d", "e", "n">>,
                       <<"Your API key may not have access to this resource.">>, <<error>>)
       ELSE IF error.isError /\ includes(msg, <<"m", "o", "d", "e", "l">>)
                             /\ (includes(msg, <<"n", "o", "t", " ", "f", "o", "u", "n", "d">>) \/ includes(msg, <<"4", "0", "4">>))
       THEN Classified("MODEL_NOT_FOUND", <<"M", "o", "d", "e", "l", " ", "n", "o", "t", " ", "f", "o", "u", "n", "d">>,
                       <<"The specified model does not exist on this provider. Use --list to see available models.">>,
                       <<error>>)
       ELSE IF error.isError /\ includes(msg, <<"e", "n", "o", "e", "n", "t">>) /\ includes(msg, <<"c", "l", "a", "u", "d", "e">>)
       THEN Classified("CLAUDE_NOT_FOUND", <<"C", "l", "a", "u", "d", "e", " ", "C", "L", "I", " ", "n", "o", "t", " ", "f", "o", "u", "n", "d">>,
                       <<"Install Claude Code CLI: npm install -g @anthropic-ai/claude-code">>,
                       <<error>>)
       ELSE Classified("UNKNOWN", error.message, <<>>,
                       IF error.isError THEN <<error>> ELSE <<>>)

\* the decimal digits of an HTTP status, as a string
DigitOf == <<"0", "1", "2", "3", "4", "5", "6", "7", "8", "9">>

StatusString(status) ==
    <<DigitOf[(status \div 100) + 1], DigitOf[((status \div 10) % 10) + 1], DigitOf[(status % 10) + 1]>>

\* the rejection of a fetch whose signal was aborted: a DOMException named
\* AbortError, which is an instance of Error
AbortError == Thrown(TRUE, "AbortError", <<"T", "h", "i", "s", " ", "o", "p", "e", "r", "a", "t", "i", "o", "n", " ", "w", "a", "s", " ", "a", "b", "o", "r", "t", "e", "d">>)

\* the rejections of a fetch that fails on the network
NetworkErrors ==
    { Thrown(TRUE, "TypeError", <<"f", "e", "t", "c", "h", " ", "f", "a", "i", "l", "e", "d">>),
      Thrown(TRUE, "Error", <<"c", "o", "n", "n", "e", "c", "t", " ", "E", "C", "O", "N", "N", "R", "E", "F", "U", "S", "E", "D", " ", "1", "2", "7", ".", "0", ".", "0", ".", "1", ":", "1", "1", "4", "3", "4">>) }

-----------------------------------------------------------------------------
(* The values of the variables a specification does not use                *)

HealthIdle == <<>>
BatchIdle == [pc |-> "idle", start |-> 0, end |-> 0, results |-> <<>>]
RmIdle == [pc |-> "idle"]
CallIdle == <<>>
CeIdle == [pc |-> "idle"]


\* the caches before any use: DEFAULT_CONFIG as written, _cachedConfig and
\* _providersCache null, no operation made
NullCache == [ref |-> "null"]
NoOp == [op |-> "none", read |-> FALSE, wrote |-> FALSE, value |-> <<>>]
LaunchIdle == [pc |-> "idle"]

-----------------------------------------------------------------------------
(* The on-disk model cache (config.ts)                                     *)

NoDiskFile == [exists |-> FALSE, valid |-> FALSE, cache |-> <<>>]

\* getCacheDir: creates the directory when it is missing; "blocked" is a
\* missing directory that mkdirSync cannot create (it throws)
getCacheDir(dir) ==
    [threw |-> dir = "blocked",
     dir |-> IF dir = "missing" THEN "present" ELSE dir]

\* loadModelCache: {} when the file is missing or does not parse; the call of
\* getCacheDir is outside its try block
loadModelCache(dir, file) ==
    LET d == getCacheDir(dir)
    IN [threw |-> d.threw,
        dir |-> d.dir,
        cache |-> IF d.threw \/ ~file.exists \/ ~file.valid THEN <<>> ELSE file.cache]

\* saveModelCache(providerKey, models): load, replace the key's entry, write
\* the whole file; writeOK is whether writeFileSync succeeds.  The entry's
\* timestamp (Date.now() at the write) is read by no code of the program and
\* is left out of the model's entries.  cache['__proto__'] = entry sets the
\* object's prototype, not a property, and JSON.stringify writes no entry.
saveModelCache(dir, file, providerKey, list, writeOK) ==
    LET l == loadModelCache(dir, file)
        cache == IF providerKey = <<"_", "_", "p", "r", "o", "t", "o", "_", "_">> THEN l.cache
                 ELSE (providerKey :> [models |-> list]) @@ l.cache
    IN IF l.threw THEN [threw |-> TRUE, dir |-> l.dir, file |-> file]
       ELSE IF ~writeOK THEN [threw |-> TRUE, dir |-> l.dir, file |-> file]
       ELSE [threw |-> FALSE, dir |-> l.dir,
             file |-> [exists |-> TRUE, valid |-> TRUE, cache |-> cache]]

\* getCachedModels(providerKey): null (<<>>) or the entry's models (<<models>>).
\* cache[providerKey] of a key that is no entry finds what the parsed object
\* inherits from Object.prototype: that value is truthy and has no models, so
\* undefined is returned instead of null.
getCachedModels(dir, file, providerKey) ==
    LET l == loadModelCache(dir, file)
    IN [threw |-> l.threw,
        dir |-> l.dir,
        value |-> IF ~l.threw /\ providerKey \in DOMAIN l.cache
                  THEN <<l.cache[providerKey].models>> ELSE <<>>,
        undefined |-> /\ ~l.threw
                      /\ providerKey \notin DOMAIN l.cache
                      /\ providerKey \in DOMAIN ObjectPrototype]

-----------------------------------------------------------------------------
(* Model discovery (providers.ts)                                          *)

CacheTTLFallback == 30000
DiscoveryTimeoutFallback == 5000

\* getConfig('cacheTTL') || 30000
CacheTTL(file) == OrElse(getConfig(file, "cacheTTL"), CacheTTLFallback)

\* getConfig('modelDiscoveryTimeout') || 5000
DiscoveryTimeout(file) == OrElse(getConfig(file, "modelDiscoveryTimeout"), DiscoveryTimeoutFallback)

\* the freshness test with the bound included: an entry exactly one TTL old
\* still counts as fresh
IsFreshInclusive(cache, providerKey, t, ttl) ==
    /\ providerKey \in DOMAIN cache
    /\ t - cache[providerKey].timestamp <= ttl

\* the freshness test of getOllamaModels: cached && now - cached.timestamp < cacheTTL
IsFresh(cache, providerKey, t, ttl) ==
    /\ providerKey \in DOMAIN cache
    /\ t - cache[providerKey].timestamp < ttl

\* the ids of the models a server can list
ModelIds == { <<"l", "l", "a", "m", "a", "3">>, <<"Q", "w", "e", "n", "3">> }

RECURSIVE SeqsUpTo(_, _)
SeqsUpTo(S, n) ==
    IF n = 0 THEN {<<>>}
    ELSE LET shorter == SeqsUpTo(S, n - 1)
         IN shorter \cup {Append(s, x) : s \in {t \in shorter : Len(t) = n - 1}, x \in S}

\* the data arrays of the discovery responses of the model, as id lists
DataArrays == SeqsUpTo(ModelIds, MaxModels)

\* the response bodies: a data array, JSON without a data array, not JSON
Bodies ==
    [kind : {"data"}, data : DataArrays] \cup
    {[kind |-> "nodata", data |-> <<>>], [kind |-> "notjson", data |-> <<>>]}

\* the HTTP statuses a server answers with
Statuses == {200, 204, 401, 403, 404, 500}

\* response.ok
Ok(status) == status >= 200 /\ status <= 299

\* the model list fetchOllamaModelsFromAPI builds from a parsed body
ParseModels(body) ==
    IF body.kind = "data" THEN [i \in 1..Len(body.data) |-> Discovered(body.data[i])]
    ELSE <<>>

CallIds == 1..MaxCalls

\* the deadline of the timer of call c: setTimeout(abort, timeout) at its start
Deadline(c) == call[c].start + DiscoveryTimeout(configFile)

\* the provider keys getModels and clearOllamaModelCache are called with
OLLAMA_GHOST == <<"o", "l", "l", "a", "m", "a", "-", "g", "h", "o", "s", "t">>
OL == <<"o", "l">>
KeyArgs == {OLLAMA_LOCAL, OL, OLLAMA_CLOUD, OLLAMA_GHOST, OPENROUTER}

IdleCall ==
    [pc |-> "idle", key |-> <<>>, start |-> 0,
     armed |-> FALSE, reqs |-> 0, how |-> "none", fetch |-> "none",
     fetched |-> <<>>, result |-> <<>>, doneAt |-> 0]

Started == {c \in CallIds : call[c].pc # "idle"}
Finished == {c \in CallIds : call[c].pc \in {"returned", "raised"}}

\* the synchronous start of getModels(arg): getModels and getOllamaModels up
\* to the first await
StartGetModels(c, arg) ==
    LET resolvedKey == resolveProvider(arg)
        cacheTTL == CacheTTL(configFile)
        base == [IdleCall EXCEPT !.key = resolvedKey, !.start = now,
                                 !.doneAt = Cardinality(Started) + 1]
    IN /\ call[c].pc = "idle"
       /\ \A b \in CallIds : b < c => call[b].pc # "idle"
       /\ call' = [call EXCEPT ![c] =
            IF ~isOllamaProvider(resolvedKey)
            THEN [base EXCEPT !.pc = "returned", !.how = "static",
                              !.result = IF resolvedKey \in DOMAIN models
                                         THEN models[resolvedKey] ELSE <<>>]
            ELSE IF IsFresh(memCache, resolvedKey, now, cacheTTL)
            THEN [base EXCEPT !.pc = "returned", !.how = "memory",
                              !.result = memCache[resolvedKey].models]
            ELSE IF resolvedKey \notin DOMAIN getProviders(configFile)
            THEN [base EXCEPT !.pc = "returned", !.how = "unregistered"]
            ELSE [base EXCEPT !.pc = "headers", !.how = "pending", !.reqs = 1,
                              !.armed = TRUE,
                              !.doneAt = 0]]
       /\ UNCHANGED <<now, configFile, cacheDir, diskFile, memCache, health, batch, rm, restVars>>

\* the catch block of fetchOllamaModelsFromAPI without its clearTimeout
FallbackKeepsTimer(c, kind, fetchedList, dir, file) ==
    LET g == getCachedModels(dir, file, call[c].key)
        done == [call[c] EXCEPT !.fetch = kind, !.fetched = fetchedList,
                                !.doneAt = Cardinality(Started)]
    IN /\ cacheDir' = g.dir
       /\ diskFile' = file
       /\ call' = [call EXCEPT ![c] =
            IF g.threw THEN [done EXCEPT !.pc = "raised", !.how = "raised"]
            ELSE IF g.value # <<>> /\ Len(g.value[1]) > 0
            THEN [done EXCEPT !.pc = "returned", !.how = "fallback", !.result = g.value[1]]
            ELSE [done EXCEPT !.pc = "returned", !.how = "empty"]]

\* a failed fetch: the catch block of fetchOllamaModelsFromAPI clears the timer
\* and rethrows, then the catch block of getOllamaModels answers with the disk
\* cache when it has a non-empty list for the key, else with the empty list;
\* getCachedModels may throw
Fallback(c, kind, fetchedList, dir, file) ==
    LET g == getCachedModels(dir, file, call[c].key)
        done == [call[c] EXCEPT !.armed = FALSE, !.fetch = kind, !.fetched = fetchedList,
                                !.doneAt = Cardinality(Started)]
    IN /\ cacheDir' = g.dir
       /\ diskFile' = file
       /\ call' = [call EXCEPT ![c] =
            IF g.threw THEN [done EXCEPT !.pc = "raised", !.how = "raised"]
            ELSE IF g.value # <<>> /\ Len(g.value[1]) > 0
            THEN [done EXCEPT !.pc = "returned", !.how = "fallback", !.result = g.value[1]]
            ELSE [done EXCEPT !.pc = "returned", !.how = "empty"]]

\* the fetch rejects before any response: a network error
NetworkError(c) ==
    /\ call[c].pc \in {"headers", "body"}
    /\ Fallback(c, "network", <<>>, cacheDir, diskFile)
    /\ UNCHANGED <<now, configFile, memCache, health, batch, rm, restVars>>

\* the deadline timer fires: controller.abort(), the fetch rejects with an
\* AbortError, which fetchOllamaModelsFromAPI rethrows as 'Connection timed out'
TimerFires(c) ==
    /\ call[c].armed
    /\ now >= Deadline(c)
    /\ Fallback(c, "timeout", <<>>, cacheDir, diskFile)
    /\ UNCHANGED <<now, configFile, memCache, health, batch, rm, restVars>>

\* the response status and headers arrive: clearTimeout, then either the
\* throw of 'HTTP status' or the await of response.json()
Headers(c, status) ==
    /\ call[c].pc = "headers"
    /\ IF Ok(status)
       THEN /\ call' = [call EXCEPT ![c].pc = "body", ![c].armed = FALSE]
            /\ UNCHANGED <<cacheDir, diskFile>>
       ELSE Fallback(c, "http", <<>>, cacheDir, diskFile)
    /\ UNCHANGED <<now, configFile, memCache, health, batch, rm, restVars>>

\* the body arrives: response.json(), the model list, the two cache writes
Body(c, body, writeOK) ==
    /\ call[c].pc = "body"
    /\ IF body.kind = "notjson"
       THEN /\ Fallback(c, "notjson", <<>>, cacheDir, diskFile)
            /\ UNCHANGED memCache
       ELSE LET list == ParseModels(body)
                s == saveModelCache(cacheDir, diskFile, call[c].key, list, writeOK)
            IN /\ memCache' = (call[c].key :> [models |-> list, timestamp |-> call[c].start])
                                @@ memCache
               /\ IF s.threw
                  THEN Fallback(c, body.kind, list, s.dir, s.file)
                  ELSE /\ cacheDir' = s.dir
                       /\ diskFile' = s.file
                       /\ call' = [call EXCEPT ![c].pc = "returned", ![c].how = "live",
                                               ![c].fetch = body.kind, ![c].fetched = list,
                                               ![c].result = list,
                                               ![c].doneAt = Cardinality(Started)]
    /\ UNCHANGED <<now, configFile, health, batch, rm, restVars>>

\* the keys clearOllamaModelCache is called with: those of getModels, and
\* the empty string
ClearKeyArgs == KeyArgs \cup { <<>> }

\* clearOllamaModelCache(providerKey) on the map: if (providerKey) delete the
\* key as given, else clear the map
clearOllamaModelCache(cache, providerKey) ==
    IF providerKey # <<>>
    THEN [k \in DOMAIN cache \ {providerKey} |-> cache[k]]
    ELSE <<>>

ClearOllamaModelCache(providerKey) ==
    /\ Finished # CallIds
    /\ memCache' = clearOllamaModelCache(memCache, providerKey)
    /\ UNCHANGED <<now, configFile, cacheDir, diskFile, call, health, batch, rm, restVars>>

\* clearOllamaModelCache(): clear the map
ClearAllOllamaModelCache ==
    /\ Finished # CallIds
    /\ memCache' = <<>>
    /\ UNCHANGED <<now, configFile, cacheDir, diskFile, call, health, batch, rm, restVars>>

\* the clock advances, never past the deadline of an armed timer
Horizon == CacheTTL(configFile) * MaxLaps

TickSteps ==
    {DiscoveryTimeout(configFile), CacheTTL(configFile) - DiscoveryTimeout(configFile)}

Tick(d) ==
    /\ d > 0
    /\ Finished # CallIds
    /\ now + d <= Horizon
    /\ \A c \in CallIds : call[c].armed => now + d <= Deadline(c)
    /\ now' = now + d
    /\ UNCHANGED <<configFile, cacheDir, diskFile, memCache, call, health, batch, rm, restVars>>

\* the states of the disk a run starts in
InitialDisks ==
    { [dir |-> "missing", file |-> NoDiskFile],
      [dir |-> "blocked", file |-> NoDiskFile],
      [dir |-> "present", file |-> [exists |-> TRUE, valid |-> FALSE, cache |-> <<>>]],
      [dir |-> "present",
       file |-> [exists |-> TRUE, valid |-> TRUE,
                 cache |-> (OLLAMA_LOCAL :> [models |-> <<Discovered(<<"l", "l", "a", "m", "a", "3">>)>>])]] }

\* the config files of the discovery runs
DiscoveryConfigFiles == {f \in ConfigFiles : ~f.exists \/ (f.valid /\ f.parsed.cacheTTL # 0)}

Init ==
    /\ now = 0
    /\ configFile \in DiscoveryConfigFiles
    /\ \E d \in InitialDisks : cacheDir = d.dir /\ diskFile = d.file
    /\ memCache = <<>>
    /\ call = [c \in CallIds |-> IdleCall]
    /\ health = HealthIdle
    /\ batch = BatchIdle
    /\ rm = RmIdle
    /\ ce = CeIdle
    /\ defaultsObj = DEFAULT_CONFIG
    /\ cachedConfig = NullCache
    /\ providersCache = <<>>
    /\ ret = NoOp
    /\ launch = LaunchIdle

Next ==
    \/ \E c \in CallIds, arg \in KeyArgs : StartGetModels(c, arg)
    \/ \E c \in CallIds : NetworkError(c)
    \/ \E c \in CallIds : TimerFires(c)
    \/ \E c \in CallIds, status \in Statuses : Headers(c, status)
    \/ \E c \in CallIds, body \in Bodies, writeOK \in BOOLEAN : Body(c, body, writeOK)
    \/ \E k \in ClearKeyArgs : ClearOllamaModelCache(k)
    \/ ClearAllOllamaModelCache
    \/ \E d \in TickSteps : Tick(d)

Spec == Init /\ [][Next]_vars

-----------------------------------------------------------------------------
(* Properties of model discovery                                           *)

\* a call of getModels on a registered dynamic provider
Dynamic(c) ==
    /\ c \in Started
    /\ isOllamaProvider(call[c].key)
    /\ call[c].key \in DOMAIN getProviders(configFile)

\* call[c].fetch when the fetch of call c ended in an error the code catches
FailedFetches == {"network", "timeout", "http", "notjson"}

\* call[c].fetch when fetchOllamaModelsFromAPI returned a list
ReturnedFetches == {"data", "nodata"}

\* call c finishes in this step
Finishes(c) == call[c].pc \in {"headers", "body"} /\ call'[c].pc \in {"returned", "raised"}

\* the entry of the disk cache for a key, as getCachedModels reads it
DiskEntry(file, k) ==
    IF file.exists /\ file.valid /\ k \in DOMAIN file.cache THEN <<file.cache[k].models>> ELSE <<>>

\* C1 as stated: of two getModels calls for the same registered dynamic
\* provider, the second started after the first completed and within the TTL of
\* the first's start, the two issue exactly one request in total.
C1_OneRequestWithinTTL ==
    \A c1, c2 \in CallIds :
        ( /\ Dynamic(c1) /\ Dynamic(c2) /\ c1 < c2
          /\ call[c1].key = call[c2].key
          /\ call[c1].pc = "returned" /\ call[c1].doneAt < c2
          /\ call[c1].reqs = 1
          /\ call[c2].start - call[c1].start < CacheTTL(configFile) )
        => call[c1].reqs + call[c2].reqs = 1

\* every in-memory entry was stored by a call whose fetch returned a list, and
\* carries that list and that call's start time
C1_EntriesFromFetches ==
    \A k \in DOMAIN memCache :
        \E p \in CallIds :
            /\ call[p].key = k
            /\ call[p].fetch \in ReturnedFetches
            /\ memCache[k] = [models |-> call[p].fetched, timestamp |-> call[p].start]

\* a call answered from memory issued no request and returns the list of an
\* earlier call of the same provider that completed before it started, whose
\* fetch returned that list, and whose start is less than the TTL before
C1_ServedFromPrior ==
    \A c \in CallIds :
        Dynamic(c) =>
            /\ (call[c].how = "memory") <=> (call[c].reqs = 0)
            /\ call[c].how = "memory" =>
                 \E p \in CallIds :
                    /\ p < c /\ call[p].key = call[c].key
                    /\ call[p].fetch \in ReturnedFetches
                    /\ call[p].doneAt # 0 /\ call[p].doneAt < c
                    /\ call[c].start - call[p].start < CacheTTL(configFile)
                    /\ call[c].result = call[p].fetched

\* the step that starts a call on a registered dynamic provider: with an entry
\* of the provider in memory and now - timestamp < TTL it returns that entry's
\* list with no request; otherwise it issues exactly one request
C1_StartStep ==
    \A c \in CallIds :
        ( /\ call[c].pc = "idle" /\ call'[c].pc # "idle"
          /\ isOllamaProvider(call'[c].key)
          /\ call'[c].key \in DOMAIN getProviders(configFile) )
        => LET k == call'[c].key
           IN IF k \in DOMAIN memCache /\ now - memCache[k].timestamp < CacheTTL(configFile)
              THEN /\ call'[c].reqs = 0
                   /\ call'[c].pc = "returned"
                   /\ call'[c].result = memCache[k].models
              ELSE /\ call'[c].reqs = 1
                   /\ call'[c].pc = "headers"

\* C1, amended: a getModels call for a registered dynamic provider is answered
\* from the in-memory cache, with no request, exactly when at its start an entry
\* of the provider is in memory with now - timestamp < TTL; every entry was
\* stored by an earlier call whose fetch returned a list and is stamped with that
\* call's start time; every other call issues exactly one request (so a call
\* after a failed fetch, which stores nothing, issues a new request).
C1_FreshEntryServed ==
    /\ [](C1_EntriesFromFetches /\ C1_ServedFromPrior)
    /\ [][C1_StartStep]_vars

\* C1 witness: the second of two calls is answered from the entry the first stored
C1_Witness ==
    /\ call[1].how = "live" /\ call[1].fetched # <<>>
    /\ call[2].how = "memory" /\ call[2].result = call[1].fetched
    /\ call[2].start > call[1].start

\* C1 witness of the expiry: the second call starts exactly one TTL after the
\* first's start and issues its own request
C1_WitnessExpired ==
    /\ call[1].how = "live"
    /\ call[2].key = call[1].key
    /\ call[2].start - call[1].start = CacheTTL(configFile)
    /\ call[2].reqs = 1

\* the step that ends a call whose fetch failed: the call returns the list of
\* the provider's disk-cache entry, or the empty list when there is none
C2_FallbackStep ==
    \A c \in CallIds :
        (Finishes(c) /\ call'[c].fetch \in FailedFetches)
        => /\ call'[c].pc = "returned"
           /\ call'[c].result =
                LET e == DiskEntry(diskFile, call[c].key) IN IF e # <<>> THEN e[1] ELSE <<>>

\* C2 as stated: a call whose fetch fails returns the list of the provider's
\* disk-cache entry when there is one, and the empty list when there is none.
C2_DiskFallback == [][C2_FallbackStep]_vars

\* C3 as stated: every getModels call completes by returning a list, never by
\* raising.
C3_NeverRaises == \A c \in CallIds : call[c].pc # "raised"

\* C4 as stated: no getModels call is still in flight after its deadline (the
\* timer fires at the deadline, before the clock moves on).
C4_ReturnsByDeadline ==
    \A c \in CallIds : call[c].pc \in {"headers", "body"} => now <= Deadline(c)

\* the step that ends a call whose response was non-2xx, not JSON, or JSON
\* without a data array: the catch block runs and both caches stay as they were
C9_MalformedStep ==
    \A c \in CallIds :
        (Finishes(c) /\ call'[c].fetch \in {"http", "notjson", "nodata"})
        => /\ call'[c].how # "live"
           /\ memCache' = memCache
           /\ diskFile' = diskFile

\* C9 as stated: a call whose response is non-2xx or malformed (not JSON, or
\* JSON without a data array) takes the fallback path and leaves both caches as
\* they were.
C9_MalformedIsFailure == [][C9_MalformedStep]_vars


-----------------------------------------------------------------------------
(* Properties of the two model caches                                      *)

\* the in-memory cache without the entry of one key
WithoutKey(cache, k) == [j \in DOMAIN cache \ {k} |-> cache[j]]

\* a step of clearOllamaModelCache(k) removes the entry of k and no other, a
\* step of clearOllamaModelCache() removes every entry, and both leave the
\* disk cache as it was
C21_ClearStep ==
    /\ \A k \in ClearKeyArgs :
          ClearOllamaModelCache(k) =>
              /\ memCache' = WithoutKey(memCache, k)
              /\ diskFile' = diskFile
              /\ cacheDir' = cacheDir
    /\ ClearAllOllamaModelCache =>
          /\ DOMAIN memCache' = {}
          /\ diskFile' = diskFile
          /\ cacheDir' = cacheDir

\* C21 as stated: clearOllamaModelCache(key) removes only that key's in-memory
\* entry, clearOllamaModelCache() removes all of them, and neither changes
\* the disk cache.
C21_ClearFrame == [][C21_ClearStep]_vars


\* C24 as stated: when the fetch of a getModels call returned a list, the call
\* returns that list, and after the step in which it finishes the in-memory
\* entry and the disk-cache entry of its provider both hold exactly that list.
C24_SuccessStep ==
    \A c \in CallIds :
        (Finishes(c) /\ call'[c].fetch \in ReturnedFetches) =>
            /\ call'[c].pc = "returned"
            /\ call'[c].result = call'[c].fetched
            /\ call'[c].key \in DOMAIN memCache'
            /\ memCache'[call'[c].key].models = call'[c].fetched
            /\ DiskEntry(diskFile', call'[c].key) = <<call'[c].fetched>>

C24_CachesTogether == [][C24_SuccessStep]_vars

\* call[c].fetch when the fetch of call c failed as the interface defines
\* failure: no response, a non-2xx status, or a malformed body
SpecifiedFailures == FailedFetches \cup {"nodata"}

\* the steps of a getModels call that the statement of C25 is about: its
\* synchronous start, the arrival of its headers, and its end after a failed
\* fetch leave both caches as they were; a start on a provider that is not
\* dynamic or not registered ends the call with no request
C25_FailedStep ==
    \A c \in CallIds :
        /\ (call[c].pc = "idle" /\ call'[c].pc # "idle") =>
              /\ memCache' = memCache /\ diskFile' = diskFile
              /\ (~Dynamic(c))' => call'[c].pc = "returned" /\ call'[c].reqs = 0
        /\ (call[c].pc = "headers" /\ call'[c].pc = "body") =>
              memCache' = memCache /\ diskFile' = diskFile
        /\ (Finishes(c) /\ call'[c].fetch \in SpecifiedFailures) =>
              /\ call'[c].reqs = 1
              /\ memCache' = memCache /\ diskFile' = diskFile

\* C25 as stated: a getModels call whose fetch fails leaves the in-memory
\* entries of all providers and the whole disk cache as they were, and a call on
\* a provider that is not dynamic or not registered issues no request and
\* changes no cache.
C25_FailureChangesNothing == [][C25_FailedStep]_vars

\* no step replaces the in-memory entry of a provider by one with an earlier
\* timestamp
C26_TimestampStep ==
    \A k \in DOMAIN memCache \cap DOMAIN memCache' :
        memCache'[k].timestamp >= memCache[k].timestamp

\* C26 as stated: across overlapping getModels calls for the same provider the
\* timestamp of the provider's in-memory entry never decreases.
C26_TimestampMonotone == [][C26_TimestampStep]_vars

\* getModels(k) in the state reached would be answered by a request: k names
\* a registered dynamic provider whose in-memory entry is absent or expired
WouldRequest(cache, k) ==
    LET resolvedKey == resolveProvider(k)
    IN /\ isOllamaProvider(resolvedKey)
       /\ resolvedKey \in DOMAIN getProviders(configFile)
       /\ ~IsFresh(cache, resolvedKey, now, CacheTTL(configFile))

\* the keys and aliases of the registered dynamic providers
DynamicKeyArgs ==
    {k \in KeyArgs : /\ isOllamaProvider(resolveProvider(k))
                     /\ resolveProvider(k) \in DOMAIN getProviders(configFile)}

\* C27 as stated: for every key or alias k of a registered dynamic provider,
\* in the state clearOllamaModelCache(k) leaves, a getModels(k) is not answered
\* from the in-memory cache but issues a request.
C27_ClearInvalidates ==
    \A k \in DynamicKeyArgs :
        WouldRequest(clearOllamaModelCache(memCache, k), k)
-----------------------------------------------------------------------------
(* Health checks (providers.ts)                                            *)

HealthTimeoutFallback == 2000

\* getConfig('healthCheckTimeout') || 2000
HealthTimeout(file) == OrElse(getConfig(file, "healthCheckTimeout"), HealthTimeoutFallback)

\* getProviderKeys: Object.keys(getProviders()), in insertion order: the
\* built-ins, then the keys the custom providers add
builtInKeys == <<OPENROUTER, OLLAMA_CLOUD, OLLAMA_LOCAL, OLLAMA_CUSTOM>>

RECURSIVE addCustomKeys(_, _)
addCustomKeys(keys, customs) ==
    IF customs = <<>> THEN keys
    ELSE LET custom == Head(customs)
             complete == custom.key # <<>> /\ custom.name # <<>> /\ custom.baseUrl # <<>>
             present == \E i \in 1..Len(keys) : keys[i] = custom.key
         IN addCustomKeys(IF complete /\ ~present THEN Append(keys, custom.key) ELSE keys,
                          Tail(customs))

getProviderKeys(file) == addCustomKeys(builtInKeys, loadConfig(file).customProviders)

\* a HealthCheckResult; latencyMs and error are absent (<<>>) or present
HealthCheckResult(provider, healthy, latencyMs, error) ==
    [provider |-> provider, healthy |-> healthy, latencyMs |-> latencyMs, error |-> error]

\* the result of checkProviderHealth for a response with the given status,
\* with 403 left out of the authentication branch
ResultForStatusNo403(providerKey, status, latencyMs) ==
    IF Ok(status) THEN HealthCheckResult(providerKey, TRUE, <<latencyMs>>, <<>>)
    ELSE IF status = 401
    THEN HealthCheckResult(providerKey, FALSE, <<latencyMs>>,
            <<Classified("AUTH_INVALID",
                         <<"A", "u", "t", "h", "e", "n", "t", "i", "c", "a", "t", "i", "o", "n", " ", "f", "a", "i", "l", "e", "d", " ", "(">> \o StatusString(status) \o <<")">>,
                         <<"Check your API key configuration.">>, <<>>)>>)
    ELSE HealthCheckResult(providerKey, FALSE, <<latencyMs>>,
            <<Classified("PROVIDER_UNAVAILABLE",
                         <<"H", "T", "T", "P", " ">> \o StatusString(status) \o <<":", " ">>, <<>>, <<>>)>>)

\* the result of checkProviderHealth for a response with the given status
ResultForStatus(providerKey, status, latencyMs) ==
    IF Ok(status) THEN HealthCheckResult(providerKey, TRUE, <<latencyMs>>, <<>>)
    ELSE IF status = 401 \/ status = 403
    THEN HealthCheckResult(providerKey, FALSE, <<latencyMs>>,
            <<Classified("AUTH_INVALID",
                         <<"A", "u", "t", "h", "e", "n", "t", "i", "c", "a", "t", "i", "o", "n", " ", "f", "a", "i", "l", "e", "d", " ", "(">> \o StatusString(status) \o <<")">>,
                         <<"Check your API key configuration.">>, <<>>)>>)
    ELSE HealthCheckResult(providerKey, FALSE, <<latencyMs>>,
            <<Classified("PROVIDER_UNAVAILABLE",
                         <<"H", "T", "T", "P", " ">> \o StatusString(status) \o <<":", " ">>, <<>>, <<>>)>>)

\* the result of the catch block of checkProviderHealth, with the cause dropped
ResultForErrorNoCause(providerKey, error, latencyMs) ==
    HealthCheckResult(providerKey, FALSE, <<latencyMs>>,
                      <<[classifyError(error) EXCEPT !.cause = <<>>]>>)

\* the result of the catch block of checkProviderHealth
ResultForError(providerKey, error, latencyMs) ==
    HealthCheckResult(providerKey, FALSE, <<latencyMs>>, <<classifyError(error)>>)

\* the result for a key that is not in the registry
ResultNotFound(providerKey) ==
    HealthCheckResult(providerKey, FALSE, <<>>,
        <<Classified("PROVIDER_NOT_FOUND", <<"P", "r", "o", "v", "i", "d", "e", "r", " ", "n", "o", "t", " ", "f", "o", "u", "n", "d", ":", " ">> \o providerKey, <<>>, <<>>)>>)

\* the HTTP statuses the health endpoint answers with
HealthStatuses == {200, 204, 401, 403, 500}

NoOutcome == [kind |-> "none", status |-> 0, error |-> <<>>]

IdleCheck ==
    [pc |-> "idle", key |-> <<>>, start |-> 0, armed |-> FALSE, reqs |-> 0,
     outcome |-> NoOutcome, result |-> <<>>]

\* slot 0 is a single checkProviderHealth call, slots 1..n are the checks of
\* checkAllProvidersHealth, one per registry key
BatchIds == 1..Len(getProviderKeys(configFile))
HealthIds == {0} \cup BatchIds

\* the provider keys a single checkProviderHealth call is given
HealthKeyArgs == {OLLAMA_LOCAL, OL, <<"n", "o", "n", "e", "x", "i", "s", "t", "e", "n", "t">>, <<"c", "o", "n", "s", "t", "r", "u", "c", "t", "o", "r">>}

HealthDeadline(i) == health[i].start + HealthTimeout(configFile)

\* the synchronous start of checkProviderHealth(providerKey): the registry
\* lookup (the key as given, no alias resolution), the timer, the fetch
StartedCheck(providerKey) ==
    IF providerKey \notin DOMAIN getProviders(configFile) /\ providerKey \in DOMAIN ObjectPrototype
    THEN \* allProviders[providerKey] is an inherited function, which is truthy:
         \* provider.getBaseUrl() raises a TypeError, outside the try block
         [IdleCheck EXCEPT !.pc = "raised", !.key = providerKey, !.start = now,
                           !.outcome = [NoOutcome EXCEPT !.kind = "inherited"]]
    ELSE IF providerKey \notin DOMAIN getProviders(configFile)
    THEN [IdleCheck EXCEPT !.pc = "done", !.key = providerKey, !.start = now,
                           !.outcome = [NoOutcome EXCEPT !.kind = "absent"],
                           !.result = <<ResultNotFound(providerKey)>>]
    ELSE [IdleCheck EXCEPT !.pc = "fetching", !.key = providerKey, !.start = now,
                           !.armed = TRUE, !.reqs = 1]

\* checkProviderHealth(providerKey), called on its own
CheckProviderHealth(providerKey) ==
    /\ health[0].pc = "idle"
    /\ batch.pc = "idle"
    /\ health' = [health EXCEPT ![0] = StartedCheck(providerKey)]
    /\ UNCHANGED <<now, configFile, cacheDir, diskFile, memCache, call, batch, rm, restVars>>

\* the checks checkAllProvidersHealth has started when it awaits Promise.all,
\* were the checks awaited one after the other
StartedFirstOnly(keys) == {1}

\* the checks checkAllProvidersHealth has started when it awaits Promise.all:
\* providerKeys.map starts every one of them
StartedByMap(keys) == 1..Len(keys)

\* checkAllProvidersHealth up to its await
CheckAllProvidersHealth ==
    LET keys == getProviderKeys(configFile)
    IN /\ batch.pc = "idle"
       /\ health[0].pc = "idle"
       /\ health' = [i \in HealthIds |->
                        IF i \in StartedByMap(keys) THEN StartedCheck(keys[i]) ELSE health[i]]
       /\ batch' = [batch EXCEPT !.pc = "waiting", !.start = now]
       /\ UNCHANGED <<now, configFile, cacheDir, diskFile, memCache, call, rm, restVars>>

\* the response arrives: clearTimeout, the result by status
HealthResponse(i, status) ==
    /\ health[i].pc = "fetching"
    /\ health' = [health EXCEPT ![i] =
          [@ EXCEPT !.pc = "done", !.armed = FALSE,
                    !.outcome = [NoOutcome EXCEPT !.kind = "status", !.status = status],
                    !.result = <<ResultForStatus(health[i].key, status, now - health[i].start)>>]]
    /\ UNCHANGED <<now, configFile, cacheDir, diskFile, memCache, call, batch, rm, restVars>>

\* the fetch rejects with a network error: the catch block
HealthRejects(i, error) ==
    /\ health[i].pc = "fetching"
    /\ health' = [health EXCEPT ![i] =
          [@ EXCEPT !.pc = "done", !.armed = FALSE,
                    !.outcome = [NoOutcome EXCEPT !.kind = "error", !.error = <<error>>],
                    !.result = <<ResultForError(health[i].key, error, now - health[i].start)>>]]
    /\ UNCHANGED <<now, configFile, cacheDir, diskFile, memCache, call, batch, rm, restVars>>

\* the deadline timer fires: controller.abort(), the fetch rejects with the
\* AbortError, the catch block
HealthTimerFires(i) ==
    /\ health[i].armed
    /\ now >= HealthDeadline(i)
    /\ health' = [health EXCEPT ![i] =
          [@ EXCEPT !.pc = "done", !.armed = FALSE,
                    !.outcome = [NoOutcome EXCEPT !.kind = "abort", !.error = <<AbortError>>],
                    !.result = <<ResultForError(health[i].key, AbortError, now - health[i].start)>>]]
    /\ UNCHANGED <<now, configFile, cacheDir, diskFile, memCache, call, batch, rm, restVars>>

\* the results Promise.all resolves with, keeping the healthy ones only
HealthyResultsOnly(keys) ==
    LET all == [i \in 1..Len(keys) |-> health[i].result[1]]
    IN SelectSeq(all, LAMBDA r : r.healthy)

\* the results Promise.all resolves with: one per key, in the order of the keys
PromiseAllResults(keys) == [i \in 1..Len(keys) |-> health[i].result[1]]

\* Promise.all resolves when every check has: checkAllProvidersHealth returns
AllProvidersHealthReturns ==
    /\ batch.pc = "waiting"
    /\ \A i \in BatchIds : health[i].pc = "done"
    /\ batch' = [batch EXCEPT !.pc = "returned", !.end = now,
                              !.results = PromiseAllResults(getProviderKeys(configFile))]
    /\ UNCHANGED <<now, configFile, cacheDir, diskFile, memCache, call, health, rm, restVars>>

\* the clock advances, never past the deadline of an armed timer, and not
\* while a resolved Promise.all has its continuation to run
HealthHorizon == HealthTimeout(configFile) * MaxLaps

HealthTick ==
    /\ now + HealthTimeout(configFile) <= HealthHorizon
    /\ \A i \in HealthIds : health[i].armed => now + HealthTimeout(configFile) <= HealthDeadline(i)
    /\ ~(batch.pc = "waiting" /\ \A i \in BatchIds : health[i].pc = "done")
    /\ now' = now + HealthTimeout(configFile)
    /\ UNCHANGED <<configFile, cacheDir, diskFile, memCache, call, health, batch, rm, restVars>>

\* the config files of the health-check runs: none, and the files that parse
HealthConfigFiles == {f \in ConfigFiles : ~f.exists \/ f.valid}

InitHealth ==
    /\ now = 0
    /\ configFile \in HealthConfigFiles
    /\ cacheDir = "missing"
    /\ diskFile = NoDiskFile
    /\ memCache = <<>>
    /\ call = CallIdle
    /\ health = [i \in HealthIds |-> IdleCheck]
    /\ batch = BatchIdle
    /\ rm = RmIdle
    /\ ce = CeIdle
    /\ defaultsObj = DEFAULT_CONFIG
    /\ cachedConfig = NullCache
    /\ providersCache = <<>>
    /\ ret = NoOp
    /\ launch = LaunchIdle

NextHealth ==
    \/ \E k \in HealthKeyArgs : CheckProviderHealth(k)
    \/ CheckAllProvidersHealth
    \/ \E i \in HealthIds, status \in HealthStatuses : HealthResponse(i, status)
    \/ \E i \in HealthIds, error \in NetworkErrors : HealthRejects(i, error)
    \/ \E i \in HealthIds : HealthTimerFires(i)
    \/ AllProvidersHealthReturns
    \/ HealthTick

SpecHealth == InitHealth /\ [][NextHealth]_vars

-----------------------------------------------------------------------------
(* Properties of the health checks                                         *)

\* the checks that have completed
DoneChecks == {i \in DOMAIN health : health[i].pc = "done"}

\* C5 as stated: a check that ends because its timer aborted the request
\* returns healthy = false with an error of code CONNECTION_TIMEOUT.
C5_TimeoutClassified ==
    \A i \in DoneChecks :
        health[i].outcome.kind = "abort"
        => /\ ~health[i].result[1].healthy
           /\ health[i].result[1].error # <<>>
           /\ health[i].result[1].error[1].code = "CONNECTION_TIMEOUT"

\* the largest element of a non-empty set of numbers
MaxOf(S) == CHOOSE x \in S : \A y \in S : y <= x

\* C6: while checkAllProvidersHealth waits, every registered key has its check
\* started, at the time of the call, and the wait does not outlast the health
\* timeout; it returns one result per key in key order, each the result of that
\* key's check, at the time the slowest check completed.
C6_ConcurrentChecks ==
    LET keys == getProviderKeys(configFile)
    IN /\ batch.pc \in {"waiting", "returned"}
          => \A i \in 1..Len(keys) :
                /\ health[i].pc # "idle"
                /\ health[i].key = keys[i]
                /\ health[i].start = batch.start
       /\ batch.pc = "waiting" => now <= batch.start + HealthTimeout(configFile)
       /\ batch.pc = "returned"
          => /\ Len(batch.results) = Len(keys)
             /\ \A i \in 1..Len(keys) :
                   /\ batch.results[i].provider = keys[i]
                   /\ batch.results[i] = health[i].result[1]
             /\ batch.end - batch.start =
                   MaxOf({health[i].result[1].latencyMs[1] : i \in 1..Len(keys)})
             /\ batch.end - batch.start <= HealthTimeout(configFile)

\* C6 witness: the call has returned; one provider hung until its timeout and
\* another had answered at once
C6_Witness ==
    /\ batch.pc = "returned"
    /\ \E i, j \in 1..Len(batch.results) :
          /\ health[i].outcome.kind = "abort"
          /\ batch.results[i].latencyMs = <<HealthTimeout(configFile)>>
          /\ batch.results[j].healthy
          /\ batch.results[j].latencyMs = <<0>>

\* C7: a check whose endpoint answered maps the status: 2xx to healthy with a
\* latency and no error, 401 and 403 to AUTH_INVALID, any other status to
\* PROVIDER_UNAVAILABLE.
C7_StatusMapping ==
    \A i \in DoneChecks :
        health[i].outcome.kind = "status"
        => LET s == health[i].outcome.status
               r == health[i].result[1]
           IN IF s >= 200 /\ s <= 299
              THEN r.healthy /\ r.latencyMs # <<>> /\ r.error = <<>>
              ELSE /\ ~r.healthy
                   /\ r.error # <<>>
                   /\ r.error[1].code =
                        IF s \in {401, 403} THEN "AUTH_INVALID" ELSE "PROVIDER_UNAVAILABLE"

\* C7 witness: one check answered 403, another 204, a third 500
C7_Witness ==
    \E i, j, k \in DoneChecks :
        /\ health[i].outcome = [NoOutcome EXCEPT !.kind = "status", !.status = 403]
        /\ health[j].outcome = [NoOutcome EXCEPT !.kind = "status", !.status = 204]
        /\ health[k].outcome = [NoOutcome EXCEPT !.kind = "status", !.status = 500]
        /\ health[j].result[1].healthy

\* C8 as stated: no check raises; every completed check holds a result whose provider is the key given;
\* a key absent from the registry gives PROVIDER_NOT_FOUND with no request; a
\* rejected fetch gives healthy = false with the classifyError of the rejection.
C8_StructuredResult ==
    \A i \in DOMAIN health :
        /\ health[i].pc \in {"idle", "fetching", "done"}
        /\ health[i].pc = "done"
           => /\ health[i].result # <<>>
              /\ health[i].result[1].provider = health[i].key
              /\ health[i].key \notin DOMAIN getProviders(configFile)
                 => /\ ~health[i].result[1].healthy
                    /\ health[i].result[1].error[1].code = "PROVIDER_NOT_FOUND"
                    /\ health[i].reqs = 0
              /\ health[i].outcome.kind \in {"error", "abort"}
                 => /\ ~health[i].result[1].healthy
                    /\ health[i].result[1].error = <<classifyError(health[i].outcome.error[1])>>

\* C8 witness: the checks of one call ended in a refused connection, an
\* unclassified network error and an abort
C8_Witness ==
    \E i, j, k \in DoneChecks :
        /\ health[i].outcome.kind = "error"
        /\ health[i].result[1].error[1].code = "CONNECTION_REFUSED"
        /\ health[j].outcome.kind = "error"
        /\ health[j].result[1].error[1].code = "UNKNOWN"
        /\ health[k].outcome.kind = "abort"

\* C8 witness of the absent key: an alias is not a registry key
C8_WitnessAbsent ==
    /\ health # <<>>
    /\ health[0].pc = "done"
    /\ health[0].key = OL
    /\ health[0].result[1].error[1].code = "PROVIDER_NOT_FOUND"


\* the value of a duration setting: the file's when the file holds the key,
\* else the default
Setting(file, key) ==
    IF file.exists /\ file.valid /\ key \in DOMAIN file.parsed
    THEN file.parsed[key] ELSE DEFAULT_CONFIG[key]

\* C28 as stated: the TTL of the freshness test and the timeouts of the two
\* deadlines are the configured values whenever they are configured, 0
\* included, and the defaults only when the setting is absent; a health check
\* is not pending with its timer armed after its configured deadline.
C28_ConfiguredDurations ==
    /\ CacheTTL(configFile) = Setting(configFile, "cacheTTL")
    /\ DiscoveryTimeout(configFile) = Setting(configFile, "modelDiscoveryTimeout")
    /\ HealthTimeout(configFile) = Setting(configFile, "healthCheckTimeout")
    /\ \A i \in HealthIds :
          health[i].armed => now <= health[i].start + Setting(configFile, "healthCheckTimeout")
-----------------------------------------------------------------------------
(* The deadline timers of discovery and of a health check, side by side    *)

\* the statuses and bodies of the runs with both kinds of request
TimerStatuses == {200, 500}
TimerBodies == {b \in Bodies : b.kind = "notjson" \/ ParseModels(b) # <<>>}

\* the clock advances by a step of discovery, never past the deadline of an
\* armed timer of either kind
TimersTick(d) ==
    /\ \A i \in HealthIds : health[i].armed => now + d <= HealthDeadline(i)
    /\ Tick(d)

\* the clock advances by the health timeout, never past the deadline of an
\* armed timer of either kind
TimersHealthTick ==
    /\ \A c \in CallIds : call[c].armed => now + HealthTimeout(configFile) <= Deadline(c)
    /\ Finished # CallIds
    /\ HealthTick

InitTimers ==
    /\ now = 0
    /\ configFile \in DiscoveryConfigFiles
    /\ cacheDir = "present"
    /\ diskFile = [exists |-> TRUE, valid |-> TRUE,
                   cache |-> (OLLAMA_LOCAL :> [models |-> <<Discovered(<<"l", "l", "a", "m", "a", "3">>)>>])]
    /\ memCache = <<>>
    /\ call = [c \in CallIds |-> IdleCall]
    /\ health = [i \in HealthIds |-> IdleCheck]
    /\ batch = BatchIdle
    /\ rm = RmIdle
    /\ ce = CeIdle
    /\ defaultsObj = DEFAULT_CONFIG
    /\ cachedConfig = NullCache
    /\ providersCache = <<>>
    /\ ret = NoOp
    /\ launch = LaunchIdle

NextTimers ==
    \/ \E c \in CallIds : StartGetModels(c, OLLAMA_LOCAL)
    \/ \E c \in CallIds : NetworkError(c)
    \/ \E c \in CallIds : TimerFires(c)
    \/ \E c \in CallIds, status \in TimerStatuses : Headers(c, status)
    \/ \E c \in CallIds, body \in TimerBodies : Body(c, body, TRUE)
    \/ CheckProviderHealth(OLLAMA_LOCAL)
    \/ \E status \in TimerStatuses : HealthResponse(0, status)
    \/ \E error \in NetworkErrors : HealthRejects(0, error)
    \/ HealthTimerFires(0)
    \/ \E d \in TickSteps : TimersTick(d)
    \/ TimersHealthTick

SpecTimers == InitTimers /\ [][NextTimers]_vars

\* a finished call of getModels, a finished health check
CallOver(c) == call[c].pc \in {"returned", "raised"}
CheckOver(i) == health[i].pc \in {"done", "raised"}

\* C30: a getModels call or a health check that has finished, by a response, an
\* HTTP error, a network error or the abort, has no deadline timer armed; a
\* timer is armed only while its request awaits the response; and when the timer
\* won, the request was aborted: the call ended in the catch block with the
\* timeout, with no live result.
C30_NothingDangling ==
    /\ \A c \in CallIds :
          /\ CallOver(c) => ~call[c].armed
          /\ call[c].armed => call[c].pc = "headers"
          /\ call[c].fetch = "timeout" =>
                CallOver(c) /\ call[c].how \in {"fallback", "empty", "raised"}
    /\ \A i \in HealthIds :
          /\ CheckOver(i) => ~health[i].armed
          /\ health[i].armed => health[i].pc = "fetching"
          /\ health[i].outcome.kind = "abort" =>
                CheckOver(i) /\ health[i].outcome.error = <<AbortError>>

\* a discovery call ended by its timer, another by a response, and a health
\* check ended by its timer
C30_Witness ==
    /\ \E c \in CallIds : CallOver(c) /\ call[c].fetch = "timeout"
    /\ \E c \in CallIds : CallOver(c) /\ call[c].how = "live"
    /\ CheckOver(0) /\ health[0].outcome.kind = "abort"
-----------------------------------------------------------------------------
(* resolveModel on bounded inputs                                          *)

\* the provider keys resolveModel is called with
ResolveKeyArgs ==
    DOMAIN providerAliases \cup
    {OPENROUTER, OLLAMA_LOCAL, OLLAMA_CLOUD, <<"m", "y", "p", "r", "o", "v">>, <<"u", "n", "k", "n", "o", "w", "n", "-", "p", "r", "o", "v", "i", "d", "e", "r">>, <<"u", "n", "k", "n", "o", "w", "n">>,
     <<"c", "o", "n", "s", "t", "r", "u", "c", "t", "o", "r">>, <<"t", "o", "S", "t", "r", "i", "n", "g">>}

\* the model arguments resolveModel is called with: every shortcut, id and name
\* of the static list, and strings that differ from them in case or altogether
ShortcutArgs ==
    {openrouterModels[i].shortcut : i \in 1..Len(openrouterModels)} \cup
    {openrouterModels[i].id : i \in 1..Len(openrouterModels)} \cup
    {openrouterModels[i].name : i \in 1..Len(openrouterModels)} \cup
    {toLowerCase(openrouterModels[i].name) : i \in 1..Len(openrouterModels)} \cup
    { <<"S", "O", "N", "N", "E", "T">>, <<"C", "L", "A", "U", "D", "E", " ", "S", "O", "N", "N", "E", "T", " ", "4", ".", "5">>, <<"A", "n", "t", "h", "r", "o", "p", "i", "c", "/", "C", "l", "a", "u", "d", "e", "-", "S", "o", "n", "n", "e", "t", "-", "4", ".", "5">>,
      <<"n", "o", "n", "e", "x", "i", "s", "t", "e", "n", "t">>, <<"n", "o", "n", "e", "x", "i", "s", "t", "e", "n", "t", "-", "m", "o", "d", "e", "l">>, <<>>,
      <<"l", "l", "a", "m", "a", "3">>, <<"L", "L", "A", "M", "A", "3">>, <<"Q", "w", "e", "n", "3">>, <<"q", "w", "e", "n", "3">> }

\* the ids of the discovered lists resolveModel searches: two of them differ
\* in case only
ResolveModelIds == { <<"l", "l", "a", "m", "a", "3">>, <<"L", "L", "A", "M", "A", "3">>, <<"Q", "w", "e", "n", "3">> }

\* the lists the awaited getOllamaModels returns
DiscoveredLists ==
    {ParseModels([kind |-> "data", data |-> d]) : d \in SeqsUpTo(ResolveModelIds, MaxResolveModels)}

ResolveInputs ==
    {[pc |-> "input", providerKey |-> k, shortcut |-> s, ollamaModels |-> l,
      resolvedKey |-> <<>>, result |-> <<>>] :
        k \in ResolveKeyArgs, s \in ShortcutArgs, l \in DiscoveredLists}

\* one call of resolveModel
ResolveModel ==
    /\ rm.pc = "input"
    /\ rm' = IF resolveModelThrows(rm.providerKey)
             THEN [rm EXCEPT !.pc = "raised", !.resolvedKey = resolveProvider(rm.providerKey)]
             ELSE [rm EXCEPT !.pc = "done",
                             !.resolvedKey = resolveProvider(rm.providerKey),
                             !.result = resolveModel(rm.providerKey, rm.shortcut, rm.ollamaModels)]
    /\ UNCHANGED <<now, configFile, cacheDir, diskFile, memCache, call, health, batch, restVars>>

InitResolve ==
    /\ now = 0
    /\ configFile = NoConfigFile
    /\ cacheDir = "missing"
    /\ diskFile = NoDiskFile
    /\ memCache = <<>>
    /\ call = CallIdle
    /\ health = HealthIdle
    /\ batch = BatchIdle
    /\ rm \in {r \in ResolveInputs :
                 isOllamaProvider(resolveProvider(r.providerKey)) \/ r.ollamaModels = <<>>}
    /\ ce = CeIdle
    /\ defaultsObj = DEFAULT_CONFIG
    /\ cachedConfig = NullCache
    /\ providersCache = <<>>
    /\ ret = NoOp
    /\ launch = LaunchIdle

NextResolve == ResolveModel

SpecResolve == InitResolve /\ [][NextResolve]_vars

-----------------------------------------------------------------------------
(* Properties of resolveModel                                              *)

\* C10 as stated: for a provider with a static list (the key alias-resolved first):
\* an input equal to a model's shortcut resolves to that model's id, an input
\* equal to a listed id resolves to itself, an input matching no shortcut, id
\* or name resolves to itself; for a key with no list the input is returned.
C10_StaticResolution ==
    rm.pc \in {"done", "raised"} =>
        LET k == resolveProvider(rm.providerKey)
            s == rm.shortcut
        IN ~isOllamaProvider(k) =>
             IF k \in DOMAIN models
             THEN LET list == models[k]
                  IN /\ \A i \in 1..Len(list) : list[i].shortcut = s => rm.result = list[i].id
                     /\ \A i \in 1..Len(list) : list[i].id = s => rm.result = s
                     /\ (\A i \in 1..Len(list) :
                            /\ list[i].shortcut # s
                            /\ list[i].id # s
                            /\ toLowerCase(list[i].name) # toLowerCase(s))
                        => rm.result = s
             ELSE rm.pc = "done" /\ rm.result = s

\* C10 witness: resolveModel('or', 'sonnet') = 'anthropic/claude-sonnet-4.5'
C10_Witness ==
    /\ rm.pc = "done"
    /\ rm.providerKey = <<"o", "r">>
    /\ rm.shortcut = <<"s", "o", "n", "n", "e", "t">>
    /\ rm.result = <<"a", "n", "t", "h", "r", "o", "p", "i", "c", "/", "c", "l", "a", "u", "d", "e", "-", "s", "o", "n", "n", "e", "t", "-", "4", ".", "5">>


\* the list resolveModel searches: the discovered list of a dynamic provider,
\* the static list of any other
SearchedList ==
    LET k == resolveProvider(rm.providerKey)
    IN IF isOllamaProvider(k) THEN rm.ollamaModels
       ELSE IF k \in DOMAIN models THEN models[k] ELSE <<>>

\* the first index of a list whose model has the field equal to the input
\* (0 when there is none)
FirstBy(list, field, s) ==
    LET hits == {i \in 1..Len(list) :
                    IF field = "name" THEN toLowerCase(list[i].name) = toLowerCase(s)
                    ELSE list[i][field] = s}
    IN IF hits = {} THEN 0 ELSE CHOOSE i \in hits : \A j \in hits : i <= j

\* the id a search by criterion priority gives: shortcut, then id, then name
PriorityPick(list, s) ==
    IF FirstBy(list, "shortcut", s) # 0 THEN list[FirstBy(list, "shortcut", s)].id
    ELSE IF FirstBy(list, "id", s) # 0 THEN list[FirstBy(list, "id", s)].id
    ELSE IF FirstBy(list, "name", s) # 0 THEN list[FirstBy(list, "name", s)].id
    ELSE s

\* C11 as stated: resolveModel returns the id of the match of highest priority
\* over the whole list (shortcut before id before case-insensitive name), so an
\* input that is a listed model's shortcut or id resolves to that model's id
\* even when an earlier entry's name matches it case-insensitively.
C11_CriterionPriority ==
    rm.pc = "done" => rm.result = PriorityPick(SearchedList, rm.shortcut)

-----------------------------------------------------------------------------
(* Properties of resolveProvider                                           *)

\* C12 as stated: for every alias x, resolveProvider(x) is the alias's
\* canonical key and resolving it again changes nothing; every string that is
\* not an alias is returned unchanged.
C12_AliasIdempotent ==
    rm.pc \in {"done", "raised"} =>
        IF rm.providerKey \in DOMAIN providerAliases
        THEN /\ rm.resolvedKey = providerAliases[rm.providerKey]
             /\ resolveProvider(rm.resolvedKey) = rm.resolvedKey
        ELSE rm.resolvedKey = rm.providerKey
-----------------------------------------------------------------------------
(* classifyError on bounded inputs                                         *)

\* the pieces the messages of the thrown values are made of
MessagePieces ==
    { <<"E", "C", "O", "N", "N", "R", "E", "F", "U", "S", "E", "D">>, <<"t", "i", "m", "e", "d", " ", "o", "u", "t">>, <<"E", "N", "O", "T", "F", "O", "U", "N", "D">>, <<"4", "0", "1", " ", "U", "n", "a", "u", "t", "h", "o", "r", "i", "z", "e", "d">>, <<"F", "o", "r", "b", "i", "d", "d", "e", "n">>,
      <<"m", "o", "d", "e", "l">>, <<"4", "0", "4">>, <<"s", "p", "a", "w", "n", " ", "c", "l", "a", "u", "d", "e", " ", "E", "N", "O", "E", "N", "T">>, <<"S", "o", "m", "e", " ", "r", "a", "n", "d", "o", "m", " ", "e", "r", "r", "o", "r">> }

\* the pieces of a list joined by single spaces
RECURSIVE Join(_)
Join(pieces) ==
    IF pieces = <<>> THEN <<>>
    ELSE IF Len(pieces) = 1 THEN pieces[1]
    ELSE pieces[1] \o <<" ">> \o Join(Tail(pieces))

\* the messages: up to MaxPieces pieces
Messages == {Join(p) : p \in SeqsUpTo(MessagePieces, MaxPieces)}

\* the values classifyError is given: an Error with the message, or the
\* message itself as a plain string (String(value) = value)
ThrownValues ==
    {NewError(m) : m \in Messages} \cup {Thrown(FALSE, "", m) : m \in Messages}

\* one call of classifyError
ClassifyError ==
    /\ ce.pc = "input"
    /\ ce' = [ce EXCEPT !.pc = "done", !.result = <<classifyError(ce.error)>>]
    /\ UNCHANGED <<configFile, networkVars, configVars, launch>>

InitClassify ==
    /\ now = 0
    /\ configFile = NoConfigFile
    /\ cacheDir = "missing"
    /\ diskFile = NoDiskFile
    /\ memCache = <<>>
    /\ call = CallIdle
    /\ health = HealthIdle
    /\ batch = BatchIdle
    /\ rm = RmIdle
    /\ ce \in [pc : {"input"}, error : ThrownValues, result : {<<>>}]
    /\ defaultsObj = DEFAULT_CONFIG
    /\ cachedConfig = NullCache
    /\ providersCache = <<>>
    /\ ret = NoOp
    /\ launch = LaunchIdle

NextClassify == ClassifyError

SpecClassify == InitClassify /\ [][NextClassify]_vars

-----------------------------------------------------------------------------
(* Properties of classifyError                                             *)

\* sub occurs in s: s is some prefix, then sub, then some suffix
Contains(s, sub) ==
    \E n \in 0..Len(s) :
        /\ n + Len(sub) <= Len(s)
        /\ \A j \in 1..Len(sub) : s[n + j] = sub[j]

\* the rules in their documented order: connection-refused, timeout, DNS, 401,
\* 403, model-not-found, binary-missing, on a lower-cased message
RuleHolds(r, m) ==
    CASE r = 1 -> Contains(m, <<"e", "c", "o", "n", "n", "r", "e", "f", "u", "s", "e", "d">>) \/ Contains(m, <<"c", "o", "n", "n", "e", "c", "t", "i", "o", "n", " ", "r", "e", "f", "u", "s", "e", "d">>)
      [] r = 2 -> Contains(m, <<"e", "t", "i", "m", "e", "d", "o", "u", "t">>) \/ Contains(m, <<"t", "i", "m", "e", "o", "u", "t">>) \/ Contains(m, <<"t", "i", "m", "e", "d", " ", "o", "u", "t">>)
      [] r = 3 -> Contains(m, <<"e", "n", "o", "t", "f", "o", "u", "n", "d">>) \/ Contains(m, <<"g", "e", "t", "a", "d", "d", "r", "i", "n", "f", "o">>)
      [] r = 4 -> Contains(m, <<"4", "0", "1">>) \/ Contains(m, <<"u", "n", "a", "u", "t", "h", "o", "r", "i", "z", "e", "d">>)
      [] r = 5 -> Contains(m, <<"4", "0", "3">>) \/ Contains(m, <<"f", "o", "r", "b", "i", "d", "d", "e", "n">>)
      [] r = 6 -> Contains(m, <<"m", "o", "d", "e", "l">>) /\ (Contains(m, <<"n", "o", "t", " ", "f", "o", "u", "n", "d">>) \/ Contains(m, <<"4", "0", "4">>))
      [] r = 7 -> Contains(m, <<"e", "n", "o", "e", "n", "t">>) /\ Contains(m, <<"c", "l", "a", "u", "d", "e">>)

RuleCode ==
    <<"CONNECTION_REFUSED", "CONNECTION_TIMEOUT", "DNS_RESOLUTION_FAILED", "AUTH_INVALID",
      "AUTH_INVALID", "MODEL_NOT_FOUND", "CLAUDE_NOT_FOUND">>

\* the rules that hold of a message
RulesOf(m) == {r \in 1..Len(RuleCode) : RuleHolds(r, toLowerCase(m))}

\* the earliest of a non-empty set of rules
Earliest(rules) == CHOOSE r \in rules : \A q \in rules : r <= q

\* the classification the ordered rules give a message
ByOrderedRules(m, result) ==
    IF RulesOf(m) # {} THEN result.code = RuleCode[Earliest(RulesOf(m))]
    ELSE result.code = "UNKNOWN" /\ result.message = m

\* C13: classifyError of an Error gives the code of the earliest rule its
\* lower-cased message matches, with the error as cause; a message matching no
\* rule gives UNKNOWN with the message unchanged and the error as cause.
C13_FirstRuleWins ==
    (ce.pc = "done" /\ ce.error.isError)
    => /\ ByOrderedRules(ce.error.message, ce.result[1])
       /\ ce.result[1].cause = <<ce.error>>

\* C13 witness: a message matching the timeout and model-not-found rules (such
\* as 'timed out model 404') is classified as a timeout
C13_Witness ==
    /\ ce.pc = "done"
    /\ ce.error.isError
    /\ RulesOf(ce.error.message) = {2, 6}
    /\ ce.result[1].code = "CONNECTION_TIMEOUT"

\* C14 as stated: classifyError of a value that is not an Error classifies the
\* value's string form by the same ordered rules.
C14_NonErrorClassified ==
    (ce.pc = "done" /\ ~ce.error.isError)
    => ByOrderedRules(ce.error.message, ce.result[1])
-----------------------------------------------------------------------------
(* Configuration and registry caches (config.ts, providers.ts, setup.ts)   *)

\* the config a _cachedConfig value refers to: the DEFAULT_CONFIG object
\* itself, or an object of its own
ConfigValue(cache, defaults) ==
    IF cache.ref = "DEFAULT_CONFIG" THEN defaults ELSE cache.value

\* the file after writeFileSync(configPath, JSON.stringify(config, null, 2)):
\* a config holds strings, numbers, booleans and arrays of records of strings,
\* which JSON.parse gives back as JSON.stringify was given them
WrittenFile(config) == [exists |-> TRUE, valid |-> TRUE, parsed |-> config]

\* _cachedConfig after a call of loadConfig
CacheAfterLoad(cache, defaults, file) ==
    IF cache.ref # "null" THEN cache
    ELSE IF file.exists /\ file.valid
    THEN [ref |-> "object", value |-> Spread(defaults, file.parsed)]
    ELSE [ref |-> "DEFAULT_CONFIG"]

\* custom provider definitions
Custom(key, name, baseUrl) == [key |-> key, name |-> name, baseUrl |-> baseUrl]
MYPROV == <<"m", "y", "p", "r", "o", "v">>

\* the configs saveConfig is given: one custom provider; a custom provider
\* with a built-in's key, two with one key, and one that lacks its baseUrl;
\* no custom providers
SavedConfigs ==
    { [customProviders |-> <<Custom(MYPROV, <<"M", "y", " ", "P", "r", "o", "v", "i", "d", "e", "r">>, <<"h", "t", "t", "p", ":", "/", "/", "m", "y">>)>>],
      [customProviders |->
          <<Custom(OPENROUTER, <<"M", "y", " ", "R", "o", "u", "t", "e", "r">>, <<"h", "t", "t", "p", ":", "/", "/", "r", "o", "u", "t", "e", "r">>),
            Custom(MYPROV, <<"F", "i", "r", "s", "t">>, <<"h", "t", "t", "p", ":", "/", "/", "f", "i", "r", "s", "t">>),
            Custom(MYPROV, <<"S", "e", "c", "o", "n", "d">>, <<"h", "t", "t", "p", ":", "/", "/", "s", "e", "c", "o", "n", "d">>),
            Custom(<<"b", "r", "o", "k", "e", "n">>, <<"B", "r", "o", "k", "e", "n">>, <<>>)>>],
      [cacheTTL |-> SmallTTL] }

\* the defaults the setup wizard's selectDefaults returns
SetupDefaults ==
    { [provider |-> OPENROUTER, model |-> <<"s", "o", "n", "n", "e", "t">>],
      [provider |-> OLLAMA_LOCAL, model |-> <<"l", "l", "a", "m", "a", "3">>] }

\* the object literal initConfig writes
defaultConfig ==
    [defaultProvider |-> <<>>,
     defaultModel |-> <<>>,
     modelDiscoveryTimeout |-> DefaultDiscoveryTimeout,
     healthCheckTimeout |-> DefaultHealthTimeout,
     cacheTTL |-> DefaultCacheTTL,
     customProviders |-> <<>>,
     skipHealthCheck |-> FALSE,
     offlineMode |-> FALSE,
     headlessAllowedTools |-> <<"R", "e", "a", "d", ",", "E", "d", "i", "t", ",", "W", "r", "i", "t", "e", ",", "B", "a", "s", "h", ",", "G", "l", "o", "b", ",", "G", "r", "e", "p">>]

Returned(op, read, wrote, value) ==
    [op |-> op, read |-> read, wrote |-> wrote, value |-> value]

\* loadConfig()
LoadConfig ==
    /\ cachedConfig' = CacheAfterLoad(cachedConfig, defaultsObj, configFile)
    /\ ret' = Returned("loadConfig", cachedConfig.ref = "null", FALSE,
                       <<ConfigValue(cachedConfig', defaultsObj)>>)
    /\ UNCHANGED <<configFile, defaultsObj, providersCache, networkVars, ce, launch>>

\* the keys getConfig is called with
ConfigKeyArgs == {"cacheTTL", "defaultProvider", "customProviders"}

\* getConfig(key): loadConfig()[key] ?? DEFAULT_CONFIG[key]
GetConfig(key) ==
    /\ cachedConfig' = CacheAfterLoad(cachedConfig, defaultsObj, configFile)
    /\ ret' = Returned("getConfig", cachedConfig.ref = "null", FALSE,
                       LET config == ConfigValue(cachedConfig', defaultsObj)
                       IN <<[key |-> key,
                             value |-> IF key \in DOMAIN config THEN config[key]
                                       ELSE defaultsObj[key]]>>)
    /\ UNCHANGED <<configFile, defaultsObj, providersCache, networkVars, ce, launch>>

\* clearConfigCache()
ClearConfigCache ==
    /\ cachedConfig' = NullCache
    /\ ret' = Returned("clearConfigCache", FALSE, FALSE, <<>>)
    /\ UNCHANGED <<configFile, defaultsObj, providersCache, networkVars, ce, launch>>

\* saveConfig(config): the file is written, _cachedConfig is cleared
SaveConfig(config) ==
    /\ configFile' = WrittenFile(config)
    /\ cachedConfig' = NullCache
    /\ ret' = Returned("saveConfig", FALSE, TRUE, <<>>)
    /\ UNCHANGED <<defaultsObj, providersCache, networkVars, ce, launch>>

\* initConfig(): writes the default file unless a file exists
InitConfig ==
    /\ configFile' = IF configFile.exists THEN configFile ELSE WrittenFile(defaultConfig)
    /\ ret' = Returned("initConfig", FALSE, ~configFile.exists, <<>>)
    /\ UNCHANGED <<defaultsObj, cachedConfig, providersCache, networkVars, ce, launch>>

\* the setup wizard's saveConfiguration(providerConfigs, defaults,
\* currentConfig), currentConfig being what loadConfig() returned: the config
\* object is modified in place and written
SaveConfiguration(defaults) ==
    LET cache == CacheAfterLoad(cachedConfig, defaultsObj, configFile)
        config == Spread(ConfigValue(cache, defaultsObj),
                         [defaultProvider |-> defaults.provider,
                          defaultModel |-> defaults.model,
                          configuredProviders |-> <<defaults.provider>>])
    IN /\ IF cache.ref = "DEFAULT_CONFIG"
          THEN defaultsObj' = config /\ cachedConfig' = cache
          ELSE defaultsObj' = defaultsObj /\ cachedConfig' = [ref |-> "object", value |-> config]
       /\ configFile' = WrittenFile(config)
       /\ ret' = Returned("saveConfiguration", cachedConfig.ref = "null", TRUE, <<>>)
       /\ UNCHANGED <<providersCache, networkVars, ce, launch>>

\* the registry getProviders builds from a config: the providers by key, and
\* the keys in insertion order
BuildProviders(config) ==
    [providers |-> addCustomProviders(builtInProviders, config.customProviders),
     keys |-> addCustomKeys(builtInKeys, config.customProviders)]

\* getProviders(), as every registry function calls it: the snapshot if there
\* is one, else loadConfig() and a new snapshot
UseRegistry ==
    /\ cachedConfig' = IF providersCache # <<>> THEN cachedConfig
                       ELSE CacheAfterLoad(cachedConfig, defaultsObj, configFile)
    /\ providersCache' = IF providersCache # <<>> THEN providersCache
                         ELSE <<BuildProviders(ConfigValue(cachedConfig', defaultsObj))>>
    /\ UNCHANGED <<configFile, defaultsObj, networkVars, ce, launch>>

\* getProviders()
GetProviders ==
    /\ UseRegistry
    /\ ret' = Returned("getProviders", FALSE, FALSE, <<providersCache'[1].providers>>)

\* getProviderKeys(): Object.keys(getProviders())
GetProviderKeys ==
    /\ UseRegistry
    /\ ret' = Returned("getProviderKeys", FALSE, FALSE, <<providersCache'[1].keys>>)

\* getProvider(key): getProviders()[resolveProvider(key)]
GetProvider(key) ==
    /\ UseRegistry
    /\ ret' = Returned("getProvider", FALSE, FALSE,
                       LET k == resolveProvider(key)
                           providers == providersCache'[1].providers
                       IN IF k \in DOMAIN providers THEN <<providers[k]>> ELSE <<>>)

\* clearProvidersCache()
ClearProvidersCache ==
    /\ providersCache' = <<>>
    /\ ret' = Returned("clearProvidersCache", FALSE, FALSE, <<>>)
    /\ UNCHANGED <<configFile, defaultsObj, cachedConfig, networkVars, ce, launch>>

\* the keys getProvider is called with
ProviderKeyArgs == {<<"o", "r">>, MYPROV, <<"n", "o", "n", "e", "x", "i", "s", "t", "e", "n", "t">>}

\* the config files a run starts with
InitialConfigFiles ==
    ConfigFiles \cup {WrittenFile([customProviders |-> <<Custom(MYPROV, <<"O", "l", "d">>, <<"h", "t", "t", "p", ":", "/", "/", "o", "l", "d">>)>>])}

InitConfigSpec ==
    /\ now = 0
    /\ configFile \in InitialConfigFiles
    /\ cacheDir = "missing"
    /\ diskFile = NoDiskFile
    /\ memCache = <<>>
    /\ call = CallIdle
    /\ health = HealthIdle
    /\ batch = BatchIdle
    /\ rm = RmIdle
    /\ ce = CeIdle
    /\ defaultsObj = DEFAULT_CONFIG
    /\ cachedConfig = NullCache
    /\ providersCache = <<>>
    /\ ret = NoOp
    /\ launch = LaunchIdle

NextConfig ==
    \/ LoadConfig
    \/ \E key \in ConfigKeyArgs : GetConfig(key)
    \/ ClearConfigCache
    \/ \E config \in SavedConfigs : SaveConfig(config)
    \/ InitConfig
    \/ \E defaults \in SetupDefaults : SaveConfiguration(defaults)
    \/ GetProviders
    \/ GetProviderKeys
    \/ \E key \in ProviderKeyArgs : GetProvider(key)
    \/ ClearProvidersCache

SpecConfig == InitConfigSpec /\ [][NextConfig]_vars

-----------------------------------------------------------------------------
(* Properties of the configuration and registry caches                     *)

\* C15 as stated: a registry call returns the registry of the configuration
\* stored at the time of the call, whatever was saved before it: its providers
\* and keys are those built from the config file as it is now.
C15_RegistryRebuilt ==
    /\ ret.op = "getProviders" => ret.value = <<getProviders(configFile)>>
    /\ ret.op = "getProviderKeys" => ret.value = <<getProviderKeys(configFile)>>

\* a loadConfig that directly follows a write of the config file by the
\* program consults the disk and returns the file's contents over the defaults
C16_LoadAfterWrite ==
    (ret.op \in {"saveConfig", "initConfig", "saveConfiguration"} /\ ret.wrote
     /\ ret'.op = "loadConfig")
    => /\ ret'.read
       /\ ret'.value = <<loadConfig(configFile)>>

\* C16 as stated: every write of the config file by the program (saveConfig,
\* initConfig, saveConfiguration) invalidates the cache, so the first
\* loadConfig after it re-reads the file and returns the written contents
\* merged over the defaults.
C16_WriteInvalidates == [][C16_LoadAfterWrite]_vars

\* a custom provider definition has key, name and baseUrl
Complete(custom) == custom.key # <<>> /\ custom.name # <<>> /\ custom.baseUrl # <<>>

\* a snapshot holds the four built-in keys and every provider under its own key
SnapshotWellFormed(providers) ==
    /\ {OPENROUTER, OLLAMA_CLOUD, OLLAMA_LOCAL, OLLAMA_CUSTOM} \subseteq DOMAIN providers
    /\ \A k \in DOMAIN providers : providers[k].key = k

\* a snapshot built from a list of custom definitions: a key has the last
\* complete definition of that key when there is one, the built-in otherwise
SnapshotOf(providers, customs) ==
    \A k \in DOMAIN providers \cup {customs[i].key : i \in 1..Len(customs)} :
        LET defs == {i \in 1..Len(customs) : Complete(customs[i]) /\ customs[i].key = k}
        IN IF defs # {}
           THEN LET last == CHOOSE i \in defs : \A j \in defs : j <= i
                IN /\ k \in DOMAIN providers
                   /\ providers[k] = [name |-> customs[last].name, key |-> k, isBuiltIn |-> FALSE]
           ELSE IF k \in DOMAIN builtInProviders
           THEN k \in DOMAIN providers /\ providers[k] = builtInProviders[k]
           ELSE k \notin DOMAIN providers

\* the step in which getProviders builds a snapshot, from the config that
\* loadConfig returned to it
C17_BuildStep ==
    (providersCache = <<>> /\ providersCache' # <<>>)
    => SnapshotOf(providersCache'[1].providers,
                  ConfigValue(cachedConfig', defaultsObj').customProviders)

\* C17: every snapshot holds the four built-in keys and maps each key to one
\* provider whose key field is that key; in the snapshot getProviders builds a
\* custom definition with a built-in's key replaces the built-in, a later
\* definition of a key replaces an earlier one, and a definition lacking key,
\* name or baseUrl is not registered.
C17_SnapshotKeys ==
    /\ [](providersCache # <<>> => SnapshotWellFormed(providersCache[1].providers))
    /\ [](ret.op = "getProviders" => SnapshotWellFormed(ret.value[1]))
    /\ [][C17_BuildStep]_vars

\* C17 witness: getProviders returned a snapshot in which a custom provider
\* has replaced openrouter, the second definition of myprov has replaced the
\* first, and the definition without baseUrl is absent
C17_Witness ==
    /\ ret.op = "getProviders"
    /\ ~ret.value[1][OPENROUTER].isBuiltIn
    /\ MYPROV \in DOMAIN ret.value[1]
    /\ ret.value[1][MYPROV].name = <<"S", "e", "c", "o", "n", "d">>
    /\ <<"b", "r", "o", "k", "e", "n">> \notin DOMAIN ret.value[1]

\* the value of a key in the config file, or the built-in default
FileOrDefault(file, key) ==
    IF file.exists /\ file.valid /\ key \in DOMAIN file.parsed THEN file.parsed[key]
    ELSE DEFAULT_CONFIG[key]

\* C23 as stated: a loadConfig that finds a config file that is not valid JSON
\* returns the default configuration, as it does when there is no file, and
\* getConfig(key) returns the file's value when the file has the key and the
\* default otherwise.
C23_InvalidFallsBack ==
    /\ (ret.op = "loadConfig" /\ ret.read /\ ~(configFile.exists /\ configFile.valid)) =>
          /\ ret.value = <<DEFAULT_CONFIG>>
          /\ ret.value[1].modelDiscoveryTimeout = 5000
          /\ ret.value[1].healthCheckTimeout = 2000
          /\ ret.value[1].cacheTTL = 30000
          /\ ret.value[1].customProviders = <<>>
          /\ ~ret.value[1].skipHealthCheck /\ ~ret.value[1].offlineMode
    /\ ret.op = "getConfig" =>
          ret.value[1].value = FileOrDefault(configFile, ret.value[1].key)

\* C29 as stated: a loadConfig made with the cache cleared and no config file
\* on disk returns the documented defaults, and no operation modifies the
\* defaults object.
C29_DefaultsConstant ==
    /\ defaultsObj = DEFAULT_CONFIG
    /\ (ret.op = "loadConfig" /\ ret.read /\ ~configFile.exists) =>
          /\ ret.value[1].defaultProvider = <<>>
          /\ ret.value[1].defaultModel = <<>>
          /\ ret.value = <<DEFAULT_CONFIG>>

-----------------------------------------------------------------------------
(* The disk model cache on bounded inputs (config.ts)                      *)

TEST_PROVIDER == <<"t", "e", "s", "t", "-", "p", "r", "o", "v", "i", "d", "e", "r">>

\* the provider keys the disk cache functions are called with
DiskKeys == {OLLAMA_LOCAL, TEST_PROVIDER, <<"c", "o", "n", "s", "t", "r", "u", "c", "t", "o", "r">>, <<"_", "_", "p", "r", "o", "t", "o", "_", "_">>}

\* the model lists saveModelCache is given
DiskLists == {ParseModels([kind |-> "data", data |-> d]) : d \in DataArrays}

\* what a call of a disk cache function was given and gave back
DiskCall(key, threw, result, undefined) ==
    [key |-> key, threw |-> threw, result |-> result, undefined |-> undefined]

\* saveModelCache(providerKey, models)
SaveModelCache(providerKey, list, writeOK) ==
    LET s == saveModelCache(cacheDir, diskFile, providerKey, list, writeOK)
    IN /\ cacheDir' = s.dir
       /\ diskFile' = s.file
       /\ ret' = Returned("saveModelCache", TRUE, ~s.threw,
                          <<DiskCall(providerKey, s.threw, <<list>>, FALSE)>>)
       /\ UNCHANGED <<now, configFile, memCache, call, health, batch, rm, ce,
                      defaultsObj, cachedConfig, providersCache, launch>>

\* getCachedModels(providerKey)
GetCachedModels(providerKey) ==
    LET g == getCachedModels(cacheDir, diskFile, providerKey)
    IN /\ cacheDir' = g.dir
       /\ ret' = Returned("getCachedModels", TRUE, FALSE,
                          <<DiskCall(providerKey, g.threw, g.value, g.undefined)>>)
       /\ UNCHANGED <<now, configFile, diskFile, memCache, call, health, batch, rm, ce,
                      defaultsObj, cachedConfig, providersCache, launch>>

InitDisk ==
    /\ now = 0
    /\ configFile = NoConfigFile
    /\ \E d \in InitialDisks : cacheDir = d.dir /\ diskFile = d.file
    /\ memCache = <<>>
    /\ call = CallIdle
    /\ health = HealthIdle
    /\ batch = BatchIdle
    /\ rm = RmIdle
    /\ ce = CeIdle
    /\ defaultsObj = DEFAULT_CONFIG
    /\ cachedConfig = NullCache
    /\ providersCache = <<>>
    /\ ret = NoOp
    /\ launch = LaunchIdle

NextDisk ==
    \/ \E k \in DiskKeys, list \in DiskLists, writeOK \in BOOLEAN : SaveModelCache(k, list, writeOK)
    \/ \E k \in DiskKeys : GetCachedModels(k)

SpecDisk == InitDisk /\ [][NextDisk]_vars

-----------------------------------------------------------------------------
(* Properties of the disk model cache                                      *)

\* what getCachedModels returns for a key: null, undefined, or a list
ReadBack(dir, file, k) ==
    LET g == getCachedModels(dir, file, k)
    IN [value |-> g.value, undefined |-> g.undefined]

\* a step of saveModelCache(k, m) that returns: getCachedModels(k) then gives
\* exactly m, and what it gives for every other key is as before
C22_SaveStep ==
    \A k \in DiskKeys, list \in DiskLists :
        (SaveModelCache(k, list, TRUE) /\ ~ret'.value[1].threw) =>
            /\ ReadBack(cacheDir', diskFile', k) = [value |-> <<list>>, undefined |-> FALSE]
            /\ \A j \in DiskKeys \ {k} :
                  ReadBack(cacheDir', diskFile', j) = ReadBack(cacheDir, diskFile, j)

\* getCachedModels of a key with no entry in the file returns null, and of a
\* key with an entry that entry's list
C22_ReadsEntry ==
    (ret.op = "getCachedModels" /\ ~ret.value[1].threw) =>
        LET e == DiskEntry(diskFile, ret.value[1].key)
        IN /\ ret.value[1].result = e
           /\ ~ret.value[1].undefined

\* C22 as stated: saveModelCache(k, m) followed by getCachedModels(k) returns
\* exactly m, the entries of the other keys are unchanged by the write, and
\* getCachedModels of a key that was never saved returns null.
C22_WholesaleReplace == [](C22_ReadsEntry) /\ [][C22_SaveStep]_vars

-----------------------------------------------------------------------------
(* Launching claude (index.ts)                                             *)

\* a value is truthy: an option that is present and not the empty string
Truthy(opt) == opt # <<>> /\ opt[1] # <<>>

\* a || b on strings, a an option
OrString(opt, b) == IF Truthy(opt) THEN opt[1] ELSE b

\* the environment variables the launcher and the providers read or write
EnvNames ==
    {"ANTHROPIC_BASE_URL", "ANTHROPIC_AUTH_TOKEN", "ANTHROPIC_API_KEY", "OPEN_ROUTER_API_KEY",
     "OLLAMA_HOST", "OLLAMA_API_KEY", "OLLAMA_BASE_URL_LOCAL", "OLLAMA_BASE_URL_CUSTOM"}

\* process.env[name]: absent (<<>>) or a string (<<value>>)
EnvGet(env, name) == IF name \in DOMAIN env THEN env[name] ELSE <<>>

\* process.env[name] = value
EnvSet(env, name, value) == [env EXCEPT ![name] = <<value>>]

\* the last complete definition of a custom provider with this key, as
\* getProviders registers it, or <<>>
CustomOf(customs, key) ==
    LET hits == {i \in 1..Len(customs) :
                    /\ customs[i].key = key
                    /\ customs[i].key # <<>> /\ customs[i].name # <<>> /\ customs[i].baseUrl # <<>>}
    IN IF hits = {} THEN <<>>
       ELSE <<customs[CHOOSE i \in hits : \A j \in hits : j <= i]>>

\* provider.getBaseUrl() of the registered provider with this key
getBaseUrl(key, customs, env) ==
    IF CustomOf(customs, key) # <<>> THEN CustomOf(customs, key)[1].baseUrl
    ELSE IF key = OPENROUTER
    THEN OrString(EnvGet(env, "ANTHROPIC_BASE_URL"), <<"h", "t", "t", "p", "s", ":", "/", "/", "o", "p", "e", "n", "r", "o", "u", "t", "e", "r", ".", "a", "i", "/", "a", "p", "i">>)
    ELSE IF key = OLLAMA_CLOUD
    THEN OrString(EnvGet(env, "OLLAMA_HOST"), <<"h", "t", "t", "p", "s", ":", "/", "/", "o", "l", "l", "a", "m", "a", ".", "c", "o", "m">>)
    ELSE IF key = OLLAMA_LOCAL
    THEN OrString(EnvGet(env, "OLLAMA_BASE_URL_LOCAL"), <<"h", "t", "t", "p", ":", "/", "/", "l", "o", "c", "a", "l", "h", "o", "s", "t", ":", "1", "1", "4", "3", "4">>)
    ELSE OrString(EnvGet(env, "OLLAMA_BASE_URL_CUSTOM"), <<"h", "t", "t", "p", ":", "/", "/", "1", "9", "2", ".", "1", "6", "8", ".", "8", "6", ".", "1", "0", "1", ":", "1", "1", "4", "3", "4">>)

\* provider.getAuthToken() of the registered provider with this key
getAuthToken(key, customs, env) ==
    IF CustomOf(customs, key) # <<>>
    THEN LET custom == CustomOf(customs, key)[1]
         IN IF Truthy(custom.authToken) THEN custom.authToken[1]
            ELSE IF custom.authEnvVar # <<>>
            THEN OrString(EnvGet(env, custom.authEnvVar[1]), <<>>)
            ELSE <<>>
    ELSE IF key = OPENROUTER
    THEN OrString(EnvGet(env, "ANTHROPIC_AUTH_TOKEN"),
                  OrString(EnvGet(env, "OPEN_ROUTER_API_KEY"), <<>>))
    ELSE IF key = OLLAMA_CLOUD
    THEN OrString(EnvGet(env, "OLLAMA_API_KEY"), <<>>)
    ELSE <<"o", "l", "l", "a", "m", "a">>

\* isClaudeInstalled: `which claude` succeeds, or else `where claude` does
isClaudeInstalledLenient(which, where) == TRUE

isClaudeInstalled(which, where) == which \/ where

\* modeAliases of quickMode
modeAliases ==
    (<<"t", "e", "r", "m", "i", "n", "a", "l">> :> FALSE) @@ (<<"t">> :> FALSE) @@ (<<"i", "n", "t", "e", "r", "a", "c", "t", "i", "v", "e">> :> FALSE) @@ (<<"i">> :> FALSE) @@
    (<<"h", "e", "a", "d", "l", "e", "s", "s">> :> TRUE) @@ (<<"h">> :> TRUE) @@ (<<"p", "r", "o", "m", "p", "t">> :> TRUE) @@ (<<"p">> :> TRUE)

\* modeArg in modeAliases: own and inherited properties
InModeAliases(modeArg) == modeArg \in DOMAIN modeAliases \/ modeArg \in DOMAIN ObjectPrototype

\* isHeadless of quickMode, as a truth value (an inherited property's value
\* is a function or an object, which is truthy)
quickIsHeadless(modeArg) ==
    IF modeArg = <<>> \/ modeArg[1] = <<>> THEN FALSE
    ELSE IF modeArg[1] \in DOMAIN modeAliases THEN modeAliases[modeArg[1]]
    ELSE TRUE

\* prompt of quickMode before it asks for one
quickPrompt(modeArg, promptArg) ==
    IF Truthy(modeArg) /\ ~InModeAliases(modeArg[1]) THEN modeArg ELSE promptArg

\* the args array of runClaude
claudeArgs(modelId, headless, skipPermissions, prompt, allowedTools) ==
    <<<<"-", "-", "m", "o", "d", "e", "l">>, modelId>>
    \o (IF skipPermissions THEN <<<<"-", "-", "d", "a", "n", "g", "e", "r", "o", "u", "s", "l", "y", "-", "s", "k", "i", "p", "-", "p", "e", "r", "m", "i", "s", "s", "i", "o", "n", "s">>>> ELSE <<>>)
    \o (IF headless /\ Truthy(prompt)
        THEN <<<<"-", "p">>, prompt[1]>>
             \o (IF allowedTools # <<>> THEN <<<<"-", "-", "a", "l", "l", "o", "w", "e", "d", "T", "o", "o", "l", "s">>, allowedTools>> ELSE <<>>)
        ELSE <<>>)

\* the env option of spawn: process.env with the three overrides
spawnEnv(env, baseUrl, authToken) ==
    EnvSet(EnvSet(EnvSet(env, "ANTHROPIC_BASE_URL", baseUrl),
                  "ANTHROPIC_AUTH_TOKEN", authToken),
           "ANTHROPIC_API_KEY", <<>>)

\* a promise: pending, or settled once
Pending == [state |-> "pending", value |-> <<>>]

resolve(promise) ==
    IF promise.state = "pending" THEN [state |-> "resolved", value |-> <<>>] ELSE promise

\* reject, were a settled promise settled again
rejectOverwrites(promise, reason) == [state |-> "rejected", value |-> <<reason>>]

reject(promise, reason) ==
    IF promise.state = "pending" THEN [state |-> "rejected", value |-> <<reason>>] ELSE promise

\* String(n) of a natural number
RECURSIVE NatString(_)
NatString(n) ==
    IF n < 10 THEN <<DigitOf[n + 1]>> ELSE NatString(n \div 10) \o <<DigitOf[(n % 10) + 1]>>

\* `${code}` of a close event's code: null (<<>>) or a number
CodeString(code) ==
    IF code = <<>> THEN <<"n", "u", "l", "l">>
    ELSE IF code[1] < 0 THEN <<"-">> \o NatString(0 - code[1])
    ELSE NatString(code[1])

\* the listener of 'close'
onClose(promise, code) ==
    IF code = <<0>> THEN resolve(promise)
    ELSE reject(promise, NewError(<<"C", "l", "a", "u", "d", "e", " ", "e", "x", "i", "t", "e", "d", " ", "w", "i", "t", "h", " ", "c", "o", "d", "e", " ">> \o CodeString(code)))

\* the errors of a spawn that fails: errno and message
SpawnErrors ==
    { [errno |-> -2, error |-> NewError(<<"s", "p", "a", "w", "n", " ", "c", "l", "a", "u", "d", "e", " ", "E", "N", "O", "E", "N", "T">>)],
      [errno |-> -13, error |-> NewError(<<"s", "p", "a", "w", "n", " ", "c", "l", "a", "u", "d", "e", " ", "E", "A", "C", "C", "E", "S">>)] }

\* the error spawn throws when the arguments cannot be passed
E2BIG == NewError(<<"s", "p", "a", "w", "n", " ", "E", "2", "B", "I", "G">>)

\* a custom provider definition with its token or its token's variable
CustomAuth(key, name, baseUrl, authToken, authEnvVar) ==
    [key |-> key, name |-> name, baseUrl |-> baseUrl,
     authToken |-> authToken, authEnvVar |-> authEnvVar]

TOKPROV == <<"t", "o", "k", "p", "r", "o", "v">>

\* the config files a launch finds: none; two custom providers, one with its
\* token in the file and one with its token in a variable; no allowed tools
LaunchConfigFiles ==
    { NoConfigFile,
      WrittenFile([customProviders |->
          <<CustomAuth(TOKPROV, <<"T", "o", "k", "e", "n", " ", "P", "r", "o", "v", "i", "d", "e", "r">>, <<"h", "t", "t", "p", ":", "/", "/", "t", "o", "k">>, <<<<"s", "e", "c", "r", "e", "t">>>>, <<>>),
            CustomAuth(MYPROV, <<"M", "y", " ", "P", "r", "o", "v", "i", "d", "e", "r">>, <<"h", "t", "t", "p", ":", "/", "/", "m", "y">>, <<>>, <<"ANTHROPIC_API_KEY">>)>>]),
      WrittenFile([headlessAllowedTools |-> <<>>]) }

\* the environments a launch starts in
NoEnv == [n \in EnvNames |-> <<>>]

LaunchEnvs ==
    { NoEnv,
      EnvSet(EnvSet(NoEnv, "ANTHROPIC_API_KEY", <<"s", "k", "-", "a", "n", "t">>), "OPEN_ROUTER_API_KEY", <<"s", "k", "-", "o", "r">>),
      EnvSet(EnvSet(NoEnv, "ANTHROPIC_BASE_URL", <<"h", "t", "t", "p", ":", "/", "/", "p", "r", "o", "x", "y">>), "ANTHROPIC_AUTH_TOKEN", <<"t", "o", "k">>) }

\* the arguments of the command line
ProviderArgs == { <<"o", "r">>, OLLAMA_LOCAL, MYPROV, TOKPROV, <<"c", "o", "n", "s", "t", "r", "u", "c", "t", "o", "r">> }
ModelArgs == { <<"s", "o", "n", "n", "e", "t">>, <<"C", "l", "a", "u", "d", "e", " ", "S", "o", "n", "n", "e", "t", " ", "4", ".", "5">>, <<"a", "n", "t", "h", "r", "o", "p", "i", "c", "/", "c", "l", "a", "u", "d", "e", "-", "s", "o", "n", "n", "e", "t", "-", "4", ".", "5">>, <<"l", "l", "a", "m", "a", "3">> }
ModeArgs == { <<>>, <<<<"h">>>>, <<<<"t">>>>, <<<<"l", "i", "s", "t", " ", "f", "i", "l", "e", "s">>>>, <<<<"c", "o", "n", "s", "t", "r", "u", "c", "t", "o", "r">>>> }
PromptArgs == { <<>>, <<<<"h", "i">>>> }

\* what a prompt for input returns: its validation refuses the empty string
TypedPrompts == { <<"t", "y", "p", "e", "d">> }

\* the lists getOllamaModels gives a launch
LaunchLists == {l \in DiscoveredLists : Len(l) <= 1}

\* the codes of the 'close' event of a child that ran: an exit code, or null
\* when a signal ended it
CloseCodes == {<<c>> : c \in 0..MaxExitCode} \cup {<<>>}

\* a launch before its entry point has run
LaunchStart(env, which, where, flag) ==
    [pc |-> "start", entry |-> "none", env0 |-> env, env |-> env, which |-> which, where |-> where,
     skipFlag |-> flag, providerArg |-> <<>>, modelArg |-> <<>>, ollamaModels |-> <<>>,
     providerKey |-> <<>>, modelId |-> <<>>, isHeadless |-> FALSE, prompt |-> <<>>,
     skipPermissions |-> flag, events |-> <<>>, printed |-> <<>>, baseUrl |-> <<>>,
     args |-> <<>>, childEnv |-> <<>>, outcome |-> "none", spawnError |-> <<>>,
     promise |-> Pending, closeCode |-> <<>>, exitCode |-> <<>>]

\* getProviders() as the launch calls it: _cachedConfig and _providersCache
\* are filled on the first call
LaunchRegistry ==
    /\ cachedConfig' = IF providersCache # <<>> THEN cachedConfig
                       ELSE CacheAfterLoad(cachedConfig, defaultsObj, configFile)
    /\ providersCache' = IF providersCache # <<>> THEN providersCache
                         ELSE <<BuildProviders(ConfigValue(cachedConfig', defaultsObj))>>

\* the custom provider definitions of the loaded configuration
LoadedCustoms == ConfigValue(cachedConfig, defaultsObj).customProviders

\* quickMode up to its call of runClaude
QuickMode(providerArg, modelArg, modeArg, promptArg, ollamaModels, typed) ==
    /\ launch.pc = "start"
    /\ LaunchRegistry
    /\ LET providerKey == resolveProvider(providerArg)
           known == providerKey \in DOMAIN providersCache'[1].providers
           isOllama == known /\ isOllamaProvider(providerKey)
           headless == quickIsHeadless(modeArg)
           prompt == quickPrompt(modeArg, promptArg)
       IN /\ isOllama \/ ollamaModels = <<>>
          /\ launch' =
               IF ~known
               THEN [launch EXCEPT !.pc = "exited", !.entry = "quick",
                                   !.providerArg = <<providerArg>>, !.modelArg = <<modelArg>>,
                                   !.printed = Append(@, "Unknown provider"),
                                   !.exitCode = <<1>>]
               ELSE [launch EXCEPT !.pc = "runClaude", !.entry = "quick",
                                   !.providerArg = <<providerArg>>, !.modelArg = <<modelArg>>,
                                   !.ollamaModels = ollamaModels,
                                   !.providerKey = <<providerKey>>,
                                   !.modelId = <<resolveModel(providerKey, modelArg, ollamaModels)>>,
                                   !.isHeadless = headless,
                                   !.prompt = IF headless /\ ~Truthy(prompt) THEN <<typed>>
                                              ELSE prompt]
    /\ UNCHANGED <<configFile, defaultsObj, ret, networkVars, ce>>

\* interactiveMode and continueInteractiveMode up to the call of runClaude:
\* the provider is selected from the registry's keys, the model from the
\* provider's list or typed when the list is empty, the prompt typed in
\* headless mode, the permissions asked about unless the flag was given
InteractiveMode(providerKey, modelId, ollamaModels, headless, typed, skipAnswer) ==
    /\ launch.pc = "start"
    /\ LaunchRegistry
    /\ providerKey \in DOMAIN providersCache'[1].providers
    /\ LET list == IF isOllamaProvider(providerKey) THEN ollamaModels
                   ELSE IF providerKey \in DOMAIN models THEN models[providerKey]
                   ELSE <<>>
       IN /\ isOllamaProvider(providerKey) \/ ollamaModels = <<>>
          /\ IF list = <<>> THEN modelId # <<>>
             ELSE \E i \in 1..Len(list) : list[i].id = modelId
          /\ launch' = [launch EXCEPT !.pc = "runClaude", !.entry = "interactive",
                                      !.ollamaModels = ollamaModels,
                                      !.providerKey = <<providerKey>>,
                                      !.modelId = <<modelId>>,
                                      !.isHeadless = headless,
                                      !.prompt = IF headless THEN <<typed>> ELSE <<>>,
                                      !.skipPermissions = launch.skipFlag \/ skipAnswer]
    /\ UNCHANGED <<configFile, defaultsObj, ret, networkVars, ce>>

\* validateClaudeCLI, the first statement of runClaude
ValidateClaudeCLI ==
    /\ launch.pc = "runClaude"
    /\ launch' =
         IF isClaudeInstalled(launch.which, launch.where)
         THEN [launch EXCEPT !.pc = "validated", !.events = Append(@, "found")]
         ELSE [launch EXCEPT !.pc = "exited", !.events = Append(@, "not found"),
                             !.printed = Append(@, "CLAUDE_NOT_FOUND"), !.exitCode = <<1>>]
    /\ UNCHANGED <<configFile, networkVars, ce, configVars>>

\* runClaude sets the three variables of process.env
SetEnvironment ==
    /\ launch.pc = "validated"
    /\ LET key == launch.providerKey[1]
           baseUrl == getBaseUrl(key, LoadedCustoms, launch.env)
           env1 == EnvSet(launch.env, "ANTHROPIC_BASE_URL", baseUrl)
           env2 == EnvSet(env1, "ANTHROPIC_AUTH_TOKEN", getAuthToken(key, LoadedCustoms, env1))
           env3 == EnvSet(env2, "ANTHROPIC_API_KEY", <<>>)
       IN launch' = [launch EXCEPT !.pc = "envSet", !.baseUrl = <<baseUrl>>, !.env = env3,
                                   !.events = Append(@, "env")]
    /\ UNCHANGED <<configFile, networkVars, ce, configVars>>

\* runClaude builds the arguments and spawns claude. The child starts, or
\* the spawn fails and the failure is reported by events, or spawn throws.
SpawnClaude(outcome, failure) ==
    /\ launch.pc = "envSet"
    /\ outcome \in {"started", "failed", "threw"}
    /\ LET key == launch.providerKey[1]
           allowedTools == ConfigValue(cachedConfig, defaultsObj).headlessAllowedTools
           args == claudeArgs(launch.modelId[1], launch.isHeadless, launch.skipPermissions,
                              launch.prompt, allowedTools)
           childEnv == spawnEnv(launch.env, launch.baseUrl[1],
                                getAuthToken(key, LoadedCustoms, launch.env))
       IN launch' =
            IF outcome = "threw"
            THEN [launch EXCEPT !.pc = "settled", !.outcome = outcome, !.args = args,
                                !.spawnError = <<E2BIG>>,
                                !.promise = reject(Pending, E2BIG)]
            ELSE [launch EXCEPT !.pc = "running", !.outcome = outcome, !.args = args,
                                !.childEnv = <<childEnv>>,
                                !.spawnError = IF outcome = "failed" THEN <<failure>> ELSE <<>>,
                                !.events = Append(@, "spawn")]
    /\ UNCHANGED <<configFile, networkVars, ce, configVars>>

\* the child's exit is handled: a spawn that failed emits 'error' and then
\* 'close' with the negative errno; a child that ran emits 'close' with its
\* exit code, or with null when a signal ended it
OnExit(code) ==
    /\ launch.pc = "running"
    /\ IF launch.outcome = "failed"
       THEN LET failure == launch.spawnError[1]
            IN /\ code = <<failure.errno>>
               /\ launch' = [launch EXCEPT
                     !.pc = "settled",
                     !.printed = Append(@, classifyError(failure.error).code),
                     !.closeCode = <<code>>,
                     !.promise = onClose(reject(@, failure.error), code)]
       ELSE /\ code \in CloseCodes
            /\ launch' = [launch EXCEPT !.pc = "settled", !.closeCode = <<code>>,
                                        !.promise = onClose(@, code)]
    /\ UNCHANGED <<configFile, networkVars, ce, configVars>>

\* the await of runClaude in quickMode and continueInteractiveMode: the
\* command ends when the promise is resolved, and a rejection is printed and
\* the process exits with status 1
AwaitRunClaude ==
    /\ launch.pc = "settled"
    /\ launch' = IF launch.promise.state = "resolved"
                 THEN [launch EXCEPT !.pc = "exited", !.exitCode = <<0>>]
                 ELSE [launch EXCEPT !.pc = "exited", !.printed = Append(@, "Error:"),
                                     !.exitCode = <<1>>]
    /\ UNCHANGED <<configFile, networkVars, ce, configVars>>

InitLaunch ==
    /\ now = 0
    /\ configFile \in LaunchConfigFiles
    /\ cacheDir = "missing"
    /\ diskFile = NoDiskFile
    /\ memCache = <<>>
    /\ call = CallIdle
    /\ health = HealthIdle
    /\ batch = BatchIdle
    /\ rm = RmIdle
    /\ ce = CeIdle
    /\ defaultsObj = DEFAULT_CONFIG
    /\ cachedConfig = NullCache
    /\ providersCache = <<>>
    /\ ret = NoOp
    /\ launch \in {LaunchStart(env, w[1], w[2], flag) :
                      env \in LaunchEnvs,
                      w \in {<<TRUE, FALSE>>, <<FALSE, TRUE>>, <<FALSE, FALSE>>},
                      flag \in BOOLEAN}

NextLaunch ==
    \/ \E providerArg \in ProviderArgs, modelArg \in ModelArgs, modeArg \in ModeArgs,
          promptArg \in PromptArgs, ollamaModels \in LaunchLists, typed \in TypedPrompts :
          QuickMode(providerArg, modelArg, modeArg, promptArg, ollamaModels, typed)
    \/ \E providerKey \in {OPENROUTER, OLLAMA_LOCAL, MYPROV},
          modelId \in ResolveModelIds \cup ModelArgs, ollamaModels \in LaunchLists,
          headless \in BOOLEAN, typed \in TypedPrompts, skipAnswer \in BOOLEAN :
          InteractiveMode(providerKey, modelId, ollamaModels, headless, typed, skipAnswer)
    \/ ValidateClaudeCLI
    \/ SetEnvironment
    \/ \E outcome \in {"started", "failed", "threw"}, failure \in SpawnErrors :
          SpawnClaude(outcome, failure)
    \/ \E code \in CloseCodes \cup {<<f.errno>> : f \in SpawnErrors} : OnExit(code)
    \/ AwaitRunClaude

SpecLaunch == InitLaunch /\ [][NextLaunch]_vars

-----------------------------------------------------------------------------
(* Properties of the launch                                                *)

\* the promise of runClaude exists once spawn was called
PromiseReturned == launch.pc \in {"settled", "exited"} /\ launch.outcome # "none"

\* C18: the promise returned by runClaude is resolved exactly when the child
\* that was spawned closed with exit code 0; after any other close code it is
\* rejected with an error whose message carries that code, and after a spawn
\* error it is rejected with that error; a settled promise stays as it is.
C18_Settled ==
    PromiseReturned =>
        /\ launch.promise.state \in {"resolved", "rejected"}
        /\ launch.promise.state = "resolved" <=>
              (launch.outcome = "started" /\ launch.closeCode = <<<<0>>>>)
        /\ launch.outcome = "started" /\ launch.closeCode # <<<<0>>>> =>
              /\ launch.promise.state = "rejected"
              /\ launch.promise.value[1].isError
              /\ launch.promise.value[1].message =
                    <<"C", "l", "a", "u", "d", "e", " ", "e", "x", "i", "t", "e", "d", " ", "w", "i", "t", "h", " ", "c", "o", "d", "e", " ">> \o CodeString(launch.closeCode[1])
        /\ launch.outcome \in {"failed", "threw"} =>
              /\ launch.promise.state = "rejected"
              /\ launch.promise.value =
                    IF launch.outcome = "threw" THEN launch.spawnError
                    ELSE <<launch.spawnError[1].error>>
        /\ launch.pc = "exited" => (launch.exitCode = <<0>> <=> launch.promise.state = "resolved")

C18_StaysSettled ==
    launch.promise.state # "pending" => launch'.promise = launch.promise

C18_ResolvesOnZero == [](C18_Settled) /\ [][C18_StaysSettled]_vars

\* a spawn failed, its error and its close event were handled, and the
\* promise holds the spawn error
C18_Witness ==
    /\ launch.pc = "exited"
    /\ launch.outcome = "failed"
    /\ launch.closeCode = <<<<-2>>>>
    /\ launch.promise = [state |-> "rejected", value |-> <<NewError(<<"s", "p", "a", "w", "n", " ", "c", "l", "a", "u", "d", "e", " ", "E", "N", "O", "E", "N", "T">>)>>]
    /\ launch.printed = <<"CLAUDE_NOT_FOUND", "Error:">>

\* the claude binary was located by one of the two lookups
Located == launch.which \/ launch.where

\* the position of the first occurrence of an event, or 0
FirstOf(events, e) ==
    IF \E i \in 1..Len(events) : events[i] = e
    THEN CHOOSE i \in 1..Len(events) : events[i] = e /\ \A j \in 1..(i - 1) : events[j] # e
    ELSE 0

\* C19: the existence check precedes every spawn. When claude cannot be
\* located, runClaude reports CLAUDE_NOT_FOUND and the process exits with a
\* non-zero status with process.env as it was and nothing spawned; the
\* environment is modified and claude is spawned only after a check that
\* located it.
C19_Checked ==
    /\ launch.pc # "idle" /\ ~Located =>
          /\ launch.env = launch.env0
          /\ launch.outcome = "none"
          /\ launch.childEnv = <<>>
          /\ FirstOf(launch.events, "env") = 0 /\ FirstOf(launch.events, "spawn") = 0
          /\ FirstOf(launch.events, "not found") # 0 =>
                /\ launch.pc = "exited"
                /\ launch.printed = <<"CLAUDE_NOT_FOUND">>
                /\ launch.exitCode # <<>> /\ launch.exitCode # <<0>>
    /\ launch.pc # "idle" =>
          /\ launch.env # launch.env0 \/ launch.outcome # "none" =>
                Located /\ FirstOf(launch.events, "found") = 1
          /\ FirstOf(launch.events, "env") # 0 =>
                FirstOf(launch.events, "found") # 0
                /\ FirstOf(launch.events, "found") < FirstOf(launch.events, "env")
          /\ FirstOf(launch.events, "spawn") # 0 =>
                FirstOf(launch.events, "found") # 0
                /\ FirstOf(launch.events, "found") < FirstOf(launch.events, "spawn")

C19_StepOrder ==
    /\ launch.pc # "idle" /\ launch'.env # launch.env => FirstOf(launch.events, "found") # 0
    /\ launch.pc # "idle" /\ launch'.outcome # launch.outcome =>
          FirstOf(launch.events, "found") # 0

C19_CheckPrecedesSpawn == [](C19_Checked) /\ [][C19_StepOrder]_vars

\* claude was not located: the launch ended in validateClaudeCLI
C19_Witness ==
    /\ launch.pc = "exited"
    /\ ~Located
    /\ launch.events = <<"not found">>
    /\ launch.printed = <<"CLAUDE_NOT_FOUND">>
    /\ launch.exitCode = <<1>>
    /\ launch.providerKey # <<>>

\* the position of a flag in the arguments, or 0
FlagAt(args, flag) == FirstOf(args, flag)

\* the models of the provider the argument may name
ListOf(key, ollamaModels) ==
    IF isOllamaProvider(key) THEN ollamaModels
    ELSE IF key \in DOMAIN models THEN models[key]
    ELSE <<>>

\* C20, the model: the arguments of every spawn begin with --model and the
\* resolved model id, which in quick mode is the result of resolveModel, and
\* is a listed id when the argument is a listed model's shortcut, id or name.
C20_ModelId ==
    launch.pc # "idle" /\ launch.args # <<>> =>
        /\ launch.args[1] = <<"-", "-", "m", "o", "d", "e", "l">>
        /\ launch.args[2] = launch.modelId[1]
        /\ launch.entry = "quick" =>
              LET list == ListOf(launch.providerKey[1], launch.ollamaModels)
                  arg == launch.modelArg[1]
              IN /\ launch.modelId[1] =
                       resolveModel(launch.providerArg[1], arg, launch.ollamaModels)
                 /\ (\E i \in 1..Len(list) :
                        arg \in {list[i].shortcut, list[i].id, list[i].name})
                    => \E i \in 1..Len(list) : launch.modelId[1] = list[i].id

\* C20, the flags: -p and --allowedTools are passed only in headless mode
\* with a prompt, and -p is followed by that prompt.
C20_HeadlessFlags ==
    launch.pc # "idle" /\ launch.args # <<>> =>
        /\ FlagAt(launch.args, <<"-", "p">>) # 0 =>
              /\ launch.isHeadless /\ Truthy(launch.prompt)
              /\ launch.args[FlagAt(launch.args, <<"-", "p">>) + 1] = launch.prompt[1]
        /\ FlagAt(launch.args, <<"-", "-", "a", "l", "l", "o", "w", "e", "d", "T", "o", "o", "l", "s">>) # 0 =>
              launch.isHeadless /\ Truthy(launch.prompt)

\* C20, the environment: the child of every spawn has the selected provider's
\* base URL and token, as the provider gives them when runClaude is entered,
\* and an empty ANTHROPIC_API_KEY.
C20_ChildEnvironment ==
    launch.pc # "idle" /\ launch.childEnv # <<>> =>
        LET key == launch.providerKey[1]
            child == launch.childEnv[1]
        IN /\ child["ANTHROPIC_BASE_URL"] = <<getBaseUrl(key, LoadedCustoms, launch.env0)>>
           /\ child["ANTHROPIC_AUTH_TOKEN"] = <<getAuthToken(key, LoadedCustoms, launch.env0)>>
           /\ child["ANTHROPIC_API_KEY"] = <<<<>>>>

\* C20 as stated
C20_SpawnArguments == C20_ModelId /\ C20_HeadlessFlags /\ C20_ChildEnvironment


====
